---------------------------- MODULE JsonDataProofs ----------------------------
(***************************************************************************)
(* Proofs about the parts of the JSON library that work on data: a value   *)
(* as a container, its conversions, numbers and strings to text and back,  *)
(* the places of tokens, and paths.                                        *)
(* For every set of payloads, names and texts, every width of the integers *)
(* and every way doubles are rounded.                                      *)
(*                                                                         *)
(* What a function on sequences computes is shown by induction over        *)
(* lengths, in the form of SetInduction: a set of natural numbers that has *)
(* 0 and with n also n + 1 has them all.  A fold, or a function that is    *)
(* defined by recursion, is first shown to exist (FoldExists, TableExists, *)
(* DescentExists); then it is the one that its definition chooses.         *)
(***************************************************************************)
EXTENDS JsonData, SequenceTheorems, FiniteSetTheorems, WellFoundedInduction, TLAPS

-------------------------------------------------------------------------------
(* A value that is built densely is a container.  The invariant is that the  *)
(* two values are dense: the indices of an array are those below its size.   *)

CommentTexts == Comment \cup {"none"}

(* An array as a map: its first n indices.                                 *)
Filled(n) == [0..n - 1 -> Item]

DenseArrays ==
  [type : {"array"}, map : UNION {Filled(n) : n \in 0..MaxSize}, comment : CommentTexts]
Objects == [type : {"object"}, map : UNION {[S -> Item] : S \in SUBSET Key}, comment : CommentTexts]
Others == [type : {"null", "scalar"}, map : {Empty}, comment : CommentTexts]
DenseValues == DenseArrays \cup Objects \cup Others

Inv == v \in DenseValues /\ w \in DenseValues

(* elements, of any value.                                                 *)
Elements(x) == IF x.type = "array" THEN [i \in 1..size(x) |-> At(x, i - 1)] ELSE << >>

-------------------------------------------------------------------------------
(* Sequences as functions. *)

LEMMA FunctionIsSeq ==
  ASSUME NEW S, NEW n \in Nat, NEW f \in [1..n -> S]
  PROVE  f \in Seq(S) /\ Len(f) = n
OBVIOUS

LEMMA PaddedIs ==
  ASSUME NEW s \in Seq(Item), NEW n \in Nat
  PROVE  /\ Container!Padded(s, n) \in [1..n -> Item]
         /\ \A i \in 1..n :
              Container!Padded(s, n)[i] = IF i <= Len(s) THEN s[i] ELSE "null"
BY ValueAssumption, ElementOfSeq DEF Container!Padded

LEMMA RemoveAtIs ==
  ASSUME NEW n \in Nat \ {0}, NEW s \in [1..n -> Item], NEW k \in 1..n
  PROVE  /\ RemoveAt(s, k) \in [1..n - 1 -> Item]
         /\ \A i \in 1..n - 1 : RemoveAt(s, k)[i] = IF i < k THEN s[i] ELSE s[i + 1]
<1> DEFINE front == SubSeq(s, 1, k - 1)
           back == SubSeq(s, k + 1, n)
<1>1. Len(s) = n
  BY FunctionIsSeq
<1>2. /\ front \in Seq(Item) /\ Len(front) = k - 1
      /\ \A i \in 1..k - 1 : front[i] = s[i]
  <2>1. ASSUME NEW m \in Int, NEW l \in Int, \A i \in m..l : s[i] \in Item
        PROVE  /\ SubSeq(s, m, l) \in Seq(Item)
               /\ Len(SubSeq(s, m, l)) = IF m <= l THEN l - m + 1 ELSE 0
               /\ \A i \in 1..l - m + 1 : SubSeq(s, m, l)[i] = s[m + i - 1]
    BY <2>1, SubSeqProperties
  <2>2. \A i \in 1..k - 1 : s[i] \in Item
    OBVIOUS
  <2> QED
    BY <2>1, <2>2
<1>3. /\ back \in Seq(Item) /\ Len(back) = n - k
      /\ \A i \in 1..n - k : back[i] = s[k + i]
  <2>1. ASSUME NEW m \in Int, NEW l \in Int, \A i \in m..l : s[i] \in Item
        PROVE  /\ SubSeq(s, m, l) \in Seq(Item)
               /\ Len(SubSeq(s, m, l)) = IF m <= l THEN l - m + 1 ELSE 0
               /\ \A i \in 1..l - m + 1 : SubSeq(s, m, l)[i] = s[m + i - 1]
    BY <2>1, SubSeqProperties
  <2>2. \A i \in k + 1..n : s[i] \in Item
    OBVIOUS
  <2>3. /\ back \in Seq(Item) /\ Len(back) = IF k + 1 <= n THEN n - k ELSE 0
        /\ \A i \in 1..n - k : back[i] = s[k + i]
    BY <2>1, <2>2
  <2> QED
    BY <2>3
<1> HIDE DEF front, back
<1>4. /\ front \o back \in Seq(Item) /\ Len(front \o back) = n - 1
      /\ \A i \in 1..n - 1 :
           (front \o back)[i] = IF i <= k - 1 THEN front[i] ELSE back[i - (k - 1)]
  BY <1>2, <1>3, ConcatProperties
<1>5. RemoveAt(s, k) = front \o back
  BY <1>1 DEF RemoveAt, front, back
<1>6. RemoveAt(s, k) \in [1..n - 1 -> Item]
  <2>1. ASSUME NEW m, NEW r \in Seq(Item), Len(r) = m PROVE r \in [1..m -> Item]
    BY <2>1
  <2> QED
    BY <1>4, <1>5, <2>1
<1> QED
  BY <1>2, <1>3, <1>4, <1>5, <1>6

-------------------------------------------------------------------------------
(* Dense arrays. *)

LEMMA ArrayIs ==
  ASSUME NEW n \in 0..MaxSize, NEW x, x.type = "array", x.map \in Filled(n)
  PROVE  /\ size(x) = n
         /\ Elements(x) \in [1..n -> Item] /\ Elements(x) \in Seq(Item) /\ Len(Elements(x)) = n
         /\ \A i \in 1..n : Elements(x)[i] = x.map[i - 1]
<1>0. n \in Nat
  BY ValueAssumption
<1>1. DOMAIN x.map = 0..n - 1
  BY DEF Filled
<1>2. size(x) = n
  <2>1. CASE n = 0
    BY <1>1, <2>1 DEF size, Indices
  <2>2. CASE n # 0
    <3>1. n - 1 \in 0..n - 1 /\ \A y \in 0..n - 1 : n - 1 >= y
      BY <1>0, <2>2
    <3>2. Max(0..n - 1) \in 0..n - 1 /\ \A y \in 0..n - 1 : Max(0..n - 1) >= y
      BY <3>1 DEF Max
    <3>3. Max(0..n - 1) = n - 1
      BY <1>0, <3>1, <3>2
    <3> QED
      BY <1>0, <1>1, <2>2, <3>1, <3>3 DEF size, Indices
  <2> QED
    BY <2>1, <2>2
<1>3. Elements(x) = [i \in 1..n |-> x.map[i - 1]]
  BY <1>0, <1>1, <1>2 DEF Elements, At
<1>4. Elements(x) \in [1..n -> Item]
  BY <1>0, <1>3 DEF Filled
<1> QED
  BY <1>0, <1>2, <1>3, <1>4, FunctionIsSeq

LEMMA DenseArray ==
  ASSUME NEW x \in DenseValues, x.type = "array"
  PROVE  \E n \in 0..MaxSize : x.map \in Filled(n)
BY DEF DenseValues, DenseArrays, Objects, Others

(* What a null, or an array, is as an array.                               *)
LEMMA BecomesArray ==
  ASSUME NEW x \in DenseValues, MayBecome(x, "array")
  PROVE  /\ Become(x, "array") \in DenseArrays /\ Become(x, "array") \in DenseValues
         /\ size(Become(x, "array")) = size(x)
         /\ Elements(Become(x, "array")) = Elements(x)
         /\ Become(x, "array").type = "array"
<1>1. CASE x.type = "null"
  <2>1. Become(x, "array") = [type |-> "array", map |-> Empty, comment |-> "none"]
    BY <1>1 DEF Become, Value
  <2>2. Empty \in Filled(0) /\ 0 \in 0..MaxSize
    BY ValueAssumption DEF Empty, Filled
  <2>3. Become(x, "array") \in DenseArrays
    BY <2>1, <2>2 DEF DenseArrays, CommentTexts
  <2>4. size(x) = 0 /\ Elements(x) = << >>
    BY <1>1 DEF size, Elements
  <2>5. /\ size(Become(x, "array")) = 0 /\ Elements(Become(x, "array")) \in Seq(Item)
        /\ Len(Elements(Become(x, "array"))) = 0
    <3> DEFINE y == Become(x, "array")
    <3>1. y.type = "array" /\ y.map \in Filled(0)
      BY <2>1, <2>2
    <3> HIDE DEF y
    <3>2. size(y) = 0 /\ Elements(y) \in Seq(Item) /\ Len(Elements(y)) = 0
      BY <2>2, <3>1, ArrayIs
    <3> QED
      BY <3>2 DEF y
  <2>6. Elements(Become(x, "array")) = << >>
    BY <2>5, EmptySeq
  <2> QED
    BY <2>1, <2>3, <2>4, <2>5, <2>6 DEF DenseValues
<1>2. CASE x.type = "array"
  BY <1>2 DEF Become, DenseValues, DenseArrays, Objects, Others
<1> QED
  BY <1>1, <1>2 DEF MayBecome

(* v[i] = item.                                                            *)
LEMMA StoreElement ==
  ASSUME NEW x \in DenseArrays, NEW i \in 0..MaxSize - 1, NEW item \in Item, i <= size(x)
  PROVE  /\ Store(x, i, item) \in DenseArrays
         /\ Elements(Store(x, i, item)) =
              [Container!Padded(Elements(x), IF i < size(x) THEN size(x) ELSE i + 1)
                 EXCEPT ![i + 1] = item]
<1>0. PICK n \in 0..MaxSize : x.map \in Filled(n)
  BY DEF DenseArrays
<1>1. x.type = "array" /\ n \in Nat /\ i \in Nat /\ MaxSize \in Nat
  BY ValueAssumption DEF DenseArrays
<1>2. /\ size(x) = n /\ Elements(x) \in Seq(Item) /\ Len(Elements(x)) = n
      /\ \A j \in 1..n : Elements(x)[j] = x.map[j - 1]
  BY <1>0, <1>1, ArrayIs
<1> DEFINE y == Store(x, i, item)
           m == IF i < n THEN n ELSE i + 1
<1>3. m \in 0..MaxSize /\ m \in Nat
  BY <1>1, <1>2
<1>4. /\ y \in [type : {"array"}, map : {y.map}, comment : CommentTexts] /\ y.type = "array"
      /\ y.map = [k \in 0..n - 1 \cup {i} |-> IF k = i THEN item ELSE x.map[k]]
  BY <1>0 DEF Store, DenseArrays, Filled
<1>5. 0..n - 1 \cup {i} = 0..m - 1
  BY <1>1, <1>2
<1>6. y.map \in Filled(m)
  BY <1>0, <1>1, <1>2, <1>4, <1>5 DEF Filled
<1> HIDE DEF y
<1>7. y \in DenseArrays
  BY <1>3, <1>4, <1>6 DEF DenseArrays
<1>8. Elements(y) \in [1..m -> Item] /\ \A j \in 1..m : Elements(y)[j] = y.map[j - 1]
  BY <1>3, <1>4, <1>6, ArrayIs
<1> DEFINE p == Container!Padded(Elements(x), m)
<1>9. p \in [1..m -> Item]
      /\ \A j \in 1..m : p[j] = IF j <= n THEN Elements(x)[j] ELSE "null"
  BY <1>2, <1>3, PaddedIs
<1> HIDE DEF p
<1>10. ASSUME NEW j \in 1..m PROVE Elements(y)[j] = [p EXCEPT ![i + 1] = item][j]
  <2>1. j - 1 \in 0..n - 1 \cup {i} /\ j \in Nat
    BY <1>1, <1>2, <1>3
  <2>2. Elements(y)[j] = IF j - 1 = i THEN item ELSE x.map[j - 1]
    BY <1>4, <1>8, <2>1
  <2>3. j - 1 # i => p[j] = x.map[j - 1]
    BY <1>1, <1>2, <1>3, <1>9, <2>1
  <2> QED
    BY <1>1, <1>3, <1>9, <2>1, <2>2, <2>3
<1>11. Elements(y) = [p EXCEPT ![i + 1] = item]
  <2> HIDE DEF m
  <2> QED
    BY <1>8, <1>9, <1>10
<1> QED
  BY <1>2, <1>7, <1>11 DEF y, p

(* v[i], and resize() upwards.                                             *)
LEMMA ReachElement ==
  ASSUME NEW x \in DenseValues, MayBecome(x, "array"),
         NEW i \in 0..MaxSize - 1, i <= size(x)
  PROVE  /\ Reach(x, i, "array") \in DenseArrays
         /\ Elements(Reach(x, i, "array"))
              = Container!Padded(Elements(x), IF i < size(x) THEN size(x) ELSE i + 1)
         /\ size(Reach(x, i, "array")) = IF i < size(x) THEN size(x) ELSE i + 1
<1> DEFINE y == Become(x, "array")
<1>0. /\ y \in DenseArrays /\ size(y) = size(x) /\ Elements(y) = Elements(x) /\ y.type = "array"
  BY BecomesArray
<1>1. Reach(x, i, "array") = IF i \in DOMAIN y.map THEN y ELSE Store(y, i, "null")
  BY DEF Reach
<1> HIDE DEF y
<1>2. PICK n \in 0..MaxSize : y.map \in Filled(n)
  BY <1>0 DEF DenseArrays
<1>3. /\ size(y) = n /\ Elements(y) \in [1..n -> Item] /\ Elements(y) \in Seq(Item)
      /\ Len(Elements(y)) = n /\ DOMAIN y.map = 0..n - 1 /\ n \in Nat /\ i \in Nat
  BY <1>0, <1>2, ArrayIs, ValueAssumption DEF Filled
<1>4. CASE i < n
  <2> DEFINE p == Container!Padded(Elements(y), n)
  <2>1. p \in [1..n -> Item]
        /\ \A j \in 1..n : p[j] = Elements(y)[j]
    BY <1>3, PaddedIs
  <2> HIDE DEF p
  <2>2. Elements(y) = p
    BY <1>3, <2>1
  <2>3. Reach(x, i, "array") = y
    BY <1>1, <1>3, <1>4
  <2> QED
    BY <1>0, <1>3, <1>4, <2>2, <2>3 DEF p
<1>5. CASE i = n
  <2> DEFINE p == Container!Padded(Elements(y), n + 1)
             z == Store(y, i, "null")
  <2>1. z \in DenseArrays /\ Elements(z) = [p EXCEPT ![i + 1] = "null"]
    <3>1. "null" \in Item /\ i <= size(y) /\ (IF i < size(y) THEN size(y) ELSE i + 1) = n + 1
      BY <1>3, <1>5, ValueAssumption
    <3> QED
      BY <1>0, <3>1, StoreElement
  <2>2. p \in [1..n + 1 -> Item] /\ p[n + 1] = "null"
    BY <1>3, PaddedIs
  <2>3. Reach(x, i, "array") = z
    BY <1>1, <1>3, <1>5
  <2>4. size(z) = n + 1
    <3>1. z.map \in Filled(n + 1) /\ z.type = "array" /\ n + 1 \in 0..MaxSize
      <4>1. z.map = [k \in 0..n - 1 \cup {n} |-> IF k = n THEN "null" ELSE y.map[k]] /\ z.type = "array"
        BY <1>0, <1>3, <1>5 DEF Store, DenseArrays
      <4>2. 0..n - 1 \cup {n} = 0..(n + 1) - 1
        BY <1>3
      <4>3. z.map = [k \in 0..(n + 1) - 1 |-> IF k = n THEN "null" ELSE y.map[k]]
        BY <4>1, <4>2
      <4>4. \A k \in 0..(n + 1) - 1 : k = n \/ k \in 0..n - 1
        BY <1>3
      <4>5. y.map \in [0..n - 1 -> Item] /\ "null" \in Item
        BY <1>2, ValueAssumption DEF Filled
      <4>6. z.map \in Filled(n + 1)
        BY <4>3, <4>4, <4>5 DEF Filled
      <4> QED
        BY <1>3, <1>5, <4>1, <4>6, ValueAssumption
    <3> HIDE DEF z
    <3> QED
      BY <3>1, ArrayIs
  <2> HIDE DEF p, z
  <2>5. [p EXCEPT ![i + 1] = "null"] = p
    BY <1>5, <2>2
  <2> QED
    BY <1>0, <1>3, <1>5, <2>1, <2>3, <2>4, <2>5 DEF p
<1> QED
  BY <1>0, <1>3, <1>4, <1>5

(* resize() downwards.                                                     *)
LEMMA DropElements ==
  ASSUME NEW x \in DenseArrays, NEW n \in 0..MaxSize, n <= size(x)
  PROVE  /\ Without(x, n..MaxSize) \in DenseArrays
         /\ Elements(Without(x, n..MaxSize)) = Container!Padded(Elements(x), n)
         /\ size(Without(x, n..MaxSize)) = n
<1>0. PICK l \in 0..MaxSize : x.map \in Filled(l)
  BY DEF DenseArrays
<1>1. x.type = "array" /\ n \in Nat /\ l \in Nat /\ MaxSize \in Nat
  BY ValueAssumption DEF DenseArrays
<1>2. /\ size(x) = l /\ Elements(x) \in Seq(Item) /\ Len(Elements(x)) = l
      /\ \A j \in 1..l : Elements(x)[j] = x.map[j - 1]
  BY <1>0, <1>1, ArrayIs
<1> DEFINE y == Without(x, n..MaxSize)
<1>3. (0..l - 1) \ (n..MaxSize) = 0..n - 1
  BY <1>1, <1>2
<1>4. /\ y \in [type : {"array"}, map : {y.map}, comment : CommentTexts] /\ y.type = "array"
      /\ y.map = [k \in (0..l - 1) \ (n..MaxSize) |-> x.map[k]]
  BY <1>0 DEF Without, DenseArrays, Filled
<1> HIDE DEF y
<1>5. y.map = [k \in 0..n - 1 |-> x.map[k]]
  BY <1>3, <1>4
<1>6. y.map \in Filled(n)
  BY <1>0, <1>1, <1>2, <1>5 DEF Filled
<1>7. y \in DenseArrays
  BY <1>4, <1>6 DEF DenseArrays
<1>8. /\ size(y) = n /\ Elements(y) \in [1..n -> Item]
      /\ \A j \in 1..n : Elements(y)[j] = y.map[j - 1]
  BY <1>4, <1>6, ArrayIs
<1> DEFINE p == Container!Padded(Elements(x), n)
<1>9. p \in [1..n -> Item] /\ \A j \in 1..n : p[j] = Elements(x)[j]
  BY <1>1, <1>2, PaddedIs
<1> HIDE DEF p
<1>10. ASSUME NEW j \in 1..n PROVE Elements(y)[j] = p[j]
  <2>1. j - 1 \in 0..n - 1 /\ j \in 1..l
    BY <1>1, <1>2
  <2>2. Elements(y)[j] = y.map[j - 1]
    BY <1>8
  <2>3. y.map[j - 1] = x.map[j - 1]
    BY <1>5, <2>1
  <2>4. Elements(x)[j] = x.map[j - 1] /\ p[j] = Elements(x)[j]
    BY <1>2, <1>9, <2>1
  <2> QED
    BY <2>2, <2>3, <2>4
<1>11. Elements(y) = p
  BY <1>8, <1>9, <1>10
<1> QED
  BY <1>7, <1>8, <1>11 DEF y, p

LEMMA RemoveElement ==
  ASSUME v \in DenseValues, NEW i \in 0..MaxSize - 1, removeIndex(i)
  PROVE  v' \in DenseArrays /\ Elements(v)' = RemoveAt(Elements(v), i + 1) /\ i < Len(Elements(v))
<1>1. /\ v.type = "array" /\ i \in DOMAIN v.map
      /\ v' = [v EXCEPT !.map = [j \in {k \in DOMAIN v.map : k < i} \cup i..size(v) - 2 |->
                                   IF j < i THEN v.map[j] ELSE At(v, j + 1)]]
  BY DEF removeIndex
<1>2. v \in DenseArrays
  BY <1>1 DEF DenseValues, DenseArrays, Objects, Others
<1>3. PICK n \in 0..MaxSize : v.map \in Filled(n)
  BY <1>2 DEF DenseArrays
<1>4. /\ size(v) = n /\ DOMAIN v.map = 0..n - 1 /\ i \in 0..n - 1 /\ n \in Nat \ {0}
      /\ Elements(v) \in [1..n -> Item] /\ Len(Elements(v)) = n
      /\ \A j \in 1..n : Elements(v)[j] = v.map[j - 1]
  BY <1>1, <1>3, ArrayIs, ValueAssumption DEF Filled
<1> DEFINE y == [v EXCEPT !.map = [j \in {k \in DOMAIN v.map : k < i} \cup i..size(v) - 2 |->
                                    IF j < i THEN v.map[j] ELSE At(v, j + 1)]]
<1>5. {k \in DOMAIN v.map : k < i} \cup i..size(v) - 2 = 0..(n - 1) - 1
  BY <1>4
<1>6. /\ y \in [type : {"array"}, map : {y.map}, comment : CommentTexts] /\ y.type = "array"
      /\ y.map = [j \in {k \in DOMAIN v.map : k < i} \cup i..size(v) - 2 |->
                                    IF j < i THEN v.map[j] ELSE At(v, j + 1)]
  BY <1>2 DEF DenseArrays
<1> HIDE DEF y
<1>7. /\ y.map = [j \in 0..(n - 1) - 1 |-> IF j < i THEN v.map[j] ELSE At(v, j + 1)]
  BY <1>5, <1>6
<1>8. \A j \in 0..(n - 1) - 1 :
        /\ j \in 0..n - 1 /\ j + 1 \in 0..n - 1
        /\ At(v, j + 1) = v.map[j + 1]
  BY <1>4 DEF At
<1>9. y.map \in Filled(n - 1) /\ n - 1 \in 0..MaxSize
  <2>1. v.map \in [0..n - 1 -> Item]
    BY <1>3, <1>4 DEF Filled
  <2>2. \A j \in 0..(n - 1) - 1 : (IF j < i THEN v.map[j] ELSE At(v, j + 1)) \in Item
    BY <1>8, <2>1
  <2>3. y.map \in Filled(n - 1)
    BY <1>7, <2>2 DEF Filled
  <2> QED
    BY <1>4, <2>3, ValueAssumption
<1>10. y \in DenseArrays
  BY <1>6, <1>9 DEF DenseArrays
<1>11. /\ Elements(y) \in [1..n - 1 -> Item]
       /\ \A j \in 1..n - 1 : Elements(y)[j] = y.map[j - 1]
  BY <1>6, <1>9, ArrayIs
<1> DEFINE r == RemoveAt(Elements(v), i + 1)
<1>12. /\ r \in [1..n - 1 -> Item]
       /\ \A j \in 1..n - 1 :
            r[j] = IF j < i + 1 THEN Elements(v)[j] ELSE Elements(v)[j + 1]
  BY <1>4, RemoveAtIs
<1> HIDE DEF r
<1>13. ASSUME NEW j \in 1..n - 1 PROVE Elements(y)[j] = r[j]
  <2>1. /\ j - 1 \in 0..(n - 1) - 1 /\ j \in 1..n /\ j + 1 \in 1..n
        /\ (j < i + 1 <=> j - 1 < i) /\ (j - 1) + 1 = j /\ (j + 1) - 1 = j
    BY <1>4
  <2>2. Elements(y)[j] = IF j - 1 < i THEN v.map[j - 1] ELSE v.map[j]
    BY <1>7, <1>8, <1>11, <2>1
  <2>3. r[j] = IF j - 1 < i THEN v.map[j - 1] ELSE v.map[j]
    BY <1>4, <1>12, <2>1
  <2> QED
    BY <2>2, <2>3
<1>14. Elements(y) = r
  <2> HIDE DEF y
  <2> QED
    BY <1>11, <1>12, <1>13
<1>15. v' = y
  BY <1>1 DEF y
<1>16. Elements(v)' = Elements(y)
  BY <1>15 DEF Elements, size, Indices, At
<1> QED
  BY <1>4, <1>10, <1>14, <1>15, <1>16 DEF r

-------------------------------------------------------------------------------
(* What the container sees of the value. *)

LEMMA ElementsAre == elements = Elements(v) /\ elements' = Elements(v')
BY DEF elements, Elements, size, Indices, At

LEMMA SeenOfArrays ==
  ASSUME NEW x \in DenseArrays
  PROVE  /\ x \in DenseValues /\ x.type = "array"
         /\ Elements(x) \in BoundedSeq(Item, MaxSize) /\ Len(Elements(x)) = size(x)
<1>1. PICK n \in 0..MaxSize : x.map \in Filled(n)
  BY DEF DenseArrays
<1>2. x.type = "array" /\ x \in DenseValues
  BY DEF DenseArrays, DenseValues
<1> QED
  BY <1>1, <1>2, ArrayIs DEF BoundedSeq, SeqOf

LEMMA LenOfElements ==
  ASSUME NEW x \in DenseValues, MayBecome(x, "array")
  PROVE  Len(Elements(x)) = size(x) /\ size(x) \in 0..MaxSize
<1>1. CASE x.type = "null"
  BY <1>1, ValueAssumption DEF Elements, size
<1>2. CASE x.type = "array"
  BY <1>2, DenseArray, ArrayIs
<1> QED
  BY <1>1, <1>2 DEF MayBecome

(* Whatever the value becomes, the container takes for an assignment.      *)
LEMMA AnyIsAssigned ==
  ASSUME v' \in DenseValues
  PROVE  Container!Assign
<1>1. v'.type \in {"null", "scalar", "array", "object"}
  BY DEF DenseValues, DenseArrays, Objects, Others
<1>2. elements' \in IF v'.type = "array" THEN BoundedSeq(Item, MaxSize) ELSE {<< >>}
  <2>1. CASE v'.type = "array"
    <3>1. v' \in DenseArrays
      BY <2>1 DEF DenseValues, Objects, Others
    <3> QED
      BY <2>1, <3>1, ElementsAre, SeenOfArrays
  <2>2. CASE v'.type # "array"
    BY <2>2, ElementsAre DEF Elements
  <2> QED
    BY <2>1, <2>2
<1>3. members' \in IF v'.type = "object" THEN UNION {[S -> Item] : S \in SUBSET Key}
                    ELSE {Container!NoMembers}
  BY DEF members, DenseValues, DenseArrays, Objects, Others, Empty, Container!NoMembers
<1> QED
  BY <1>1, <1>2, <1>3 DEF Container!Assign, Container!BoundedSeq, Container!SeqOf,
     BoundedSeq, SeqOf, members, elements

-------------------------------------------------------------------------------
(* The calls, each as the container's. *)

(* A null or an array that becomes a dense array has no members.           *)
LEMMA ArraysHaveNoMembers ==
  ASSUME MayBecome(v, "array"), v' \in DenseArrays
  PROVE  /\ v.type \in {"null", "array"} /\ v'.type = "array"
         /\ members = Empty /\ members' = Empty
BY DEF MayBecome, DenseArrays, members

LEMMA ResizeIs ==
  ASSUME v \in DenseValues, ~ SparseArrays, NEW n \in 0..MaxSize, resize(n)
  PROVE  /\ v' \in DenseValues /\ w' = w /\ Container!Resize(n)
         /\ UNCHANGED aborted
<1> DEFINE x == Become(v, "array")
           y == IF n > size(x) THEN Reach(x, n - 1, "array") ELSE Without(x, n..MaxSize)
<1>1. /\ MayBecome(v, "array") /\ n - 1 <= size(v) /\ w' = w
      /\ n = 0 \/ size(y) = n => v' = y /\ UNCHANGED aborted
  BY DEF resize, Within
<1>2. /\ x \in DenseArrays /\ x \in DenseValues /\ size(x) = size(v)
      /\ Elements(x) = Elements(v) /\ x.type = "array"
  BY <1>1, BecomesArray
<1>3. n \in Nat /\ size(x) \in 0..MaxSize /\ MayBecome(x, "array")
  BY <1>2, LenOfElements, ValueAssumption DEF MayBecome
<1> HIDE DEF x
<1>4. y \in DenseArrays /\ size(y) = n /\ Elements(y) = Container!Padded(Elements(v), n)
  <2>1. CASE n > size(x)
    <3>1. n - 1 \in 0..MaxSize - 1 /\ n - 1 <= size(x) /\ n - 1 = size(x)
      BY <1>1, <1>2, <1>3, <2>1, ValueAssumption
    <3>2. (IF n - 1 < size(x) THEN size(x) ELSE (n - 1) + 1) = n
      BY <1>3, <3>1
    <3> QED
      BY <1>2, <1>3, <2>1, <3>1, <3>2, ReachElement
  <2>2. CASE ~ (n > size(x))
    <3>1. n <= size(x)
      BY <1>3, <2>2, ValueAssumption
    <3> QED
      BY <1>2, <2>2, <3>1, DropElements
  <2> QED
    BY <2>1, <2>2
<1> HIDE DEF y
<1>5. v' = y /\ UNCHANGED aborted
  BY <1>1, <1>4
<1>6. /\ elements = Elements(v) /\ elements' = Elements(y)
  BY <1>5, ElementsAre
<1> QED
  BY <1>1, <1>4, <1>5, <1>6, ArraysHaveNoMembers, SeenOfArrays
  DEF Container!Resize, Container!IsSequence

LEMMA ElementIs ==
  ASSUME v \in DenseValues, ~ SparseArrays, NEW i \in 0..MaxSize - 1, Element(i)
  PROVE  v' \in DenseValues /\ w' = w /\ Container!Touch(i)
<1>1. /\ MayBecome(v, "array") /\ i <= size(v) /\ w' = w /\ v' = Reach(v, i, "array")
  BY DEF Element, Within
<1>2. /\ v' \in DenseArrays
      /\ Elements(v') = Container!Padded(Elements(v), IF i < size(v) THEN size(v) ELSE i + 1)
  BY <1>1, ReachElement
<1>3. Len(Elements(v)) = size(v) /\ elements = Elements(v) /\ elements' = Elements(v')
  BY <1>1, LenOfElements, ElementsAre
<1> QED
  BY <1>1, <1>2, <1>3, ArraysHaveNoMembers, SeenOfArrays
  DEF Container!Touch, Container!Resize, Container!IsSequence

LEMMA StoreIsPut ==
  ASSUME v \in DenseValues, MayBecome(v, "array"), NEW i \in 0..MaxSize - 1, i <= size(v),
         NEW item \in Item, v' = Store(Become(v, "array"), i, item)
  PROVE  v' \in DenseValues /\ Container!Put(i, item)
<1> DEFINE x == Become(v, "array")
<1>1. x \in DenseArrays /\ size(x) = size(v) /\ Elements(x) = Elements(v)
  BY BecomesArray
<1> HIDE DEF x
<1>2. /\ v' \in DenseArrays
      /\ Elements(v') = [Container!Padded(Elements(v), IF i < size(v) THEN size(v) ELSE i + 1)
                           EXCEPT ![i + 1] = item]
  <2>1. v' = Store(x, i, item)
    BY DEF x
  <2> QED
    BY <1>1, <2>1, StoreElement
<1>3. Len(Elements(v)) = size(v) /\ elements = Elements(v) /\ elements' = Elements(v')
  BY LenOfElements, ElementsAre
<1> QED
  BY <1>2, <1>3, ArraysHaveNoMembers, SeenOfArrays DEF Container!Put, Container!IsSequence

LEMMA SetElementIs ==
  ASSUME v \in DenseValues, ~ SparseArrays, NEW i \in 0..MaxSize - 1, NEW item \in Item,
         SetElement(i, item)
  PROVE  v' \in DenseValues /\ w' = w /\ Container!Put(i, item)
BY StoreIsPut DEF SetElement, Within

LEMMA AppendIs ==
  ASSUME v \in DenseValues, NEW item \in Item, append(item)
  PROVE  /\ v' \in DenseValues /\ w' = w /\ Container!Put(Len(elements), item)
         /\ Len(elements) \in 0..MaxSize - 1
<1>1. /\ MayBecome(v, "array") /\ size(v) < MaxSize /\ w' = w
      /\ v' = Store(Become(v, "array"), size(v), item)
  BY DEF append
<1>2. size(v) = Len(elements) /\ size(v) \in 0..MaxSize - 1 /\ size(v) <= size(v)
  BY <1>1, LenOfElements, ElementsAre, ValueAssumption
<1> QED
  BY <1>1, <1>2, StoreIsPut

LEMMA RemoveIndexIs ==
  ASSUME v \in DenseValues, NEW i \in 0..MaxSize - 1, removeIndex(i)
  PROVE  v' \in DenseValues /\ w' = w /\ Container!RemoveIndex(i)
<1>1. /\ v' \in DenseArrays /\ Elements(v)' = RemoveAt(Elements(v), i + 1)
      /\ i < Len(Elements(v))
  BY RemoveElement
<1>2. v.type = "array" /\ w' = w
  BY DEF removeIndex
<1>3. Elements(v)' = elements' /\ elements = Elements(v)
  BY <1>1, <1>2, ElementsAre DEF Elements, size, Indices, At
<1>4. RemoveAt(elements, i + 1) = Container!RemoveAt(elements, i + 1)
  BY DEF RemoveAt, Container!RemoveAt
<1> QED
  BY <1>1, <1>2, <1>3, <1>4, ArraysHaveNoMembers, SeenOfArrays
  DEF Container!RemoveIndex, MayBecome

-------------------------------------------------------------------------------
(* Objects. *)

LEMMA BecomesObject ==
  ASSUME NEW x \in DenseValues, MayBecome(x, "object")
  PROVE  /\ Become(x, "object") \in Objects
         /\ Become(x, "object").map = IF x.type = "object" THEN x.map ELSE Empty
<1>1. CASE x.type = "null"
  <2>1. Become(x, "object") = [type |-> "object", map |-> Empty, comment |-> "none"]
    BY <1>1 DEF Become, Value
  <2>2. Empty \in [{} -> Item] /\ {} \in SUBSET Key
    BY DEF Empty
  <2>3. Empty \in UNION {[S -> Item] : S \in SUBSET Key}
    BY <2>2
  <2> QED
    BY <1>1, <2>1, <2>3 DEF Objects, CommentTexts
<1>2. CASE x.type = "object"
  BY <1>2 DEF Become, DenseValues, DenseArrays, Objects, Others
<1> QED
  BY <1>1, <1>2 DEF MayBecome

(* v[key] = item.                                                          *)
LEMMA StoreIsPutMember ==
  ASSUME v \in DenseValues, MayBecome(v, "object"), NEW key \in Key, NEW item \in Item,
         v' = Store(Become(v, "object"), key, item)
  PROVE  v' \in DenseValues /\ Container!PutMember(key, item)
<1> DEFINE x == Become(v, "object")
<1>1. x \in Objects /\ x.map = members
  BY BecomesObject DEF members
<1> HIDE DEF x
<1>2. PICK S \in SUBSET Key : x.map \in [S -> Item]
  BY <1>1 DEF Objects
<1>3. v' = [x EXCEPT !.map = [k \in DOMAIN x.map \cup {key} |->
                               IF k = key THEN item ELSE x.map[k]]]
  BY DEF x, Store
<1>4. /\ v'.type = "object" /\ v'.comment = x.comment
      /\ v' = [type |-> "object", map |-> v'.map, comment |-> x.comment]
      /\ v'.map = [k \in S \cup {key} |-> IF k = key THEN item ELSE x.map[k]]
  BY <1>1, <1>2, <1>3 DEF Objects
<1>5. v'.map \in [S \cup {key} -> Item] /\ S \cup {key} \in SUBSET Key /\ x.comment \in CommentTexts
  BY <1>1, <1>2, <1>4 DEF Objects
<1>6. v' \in Objects
  BY <1>4, <1>5 DEF Objects
<1>7. members' = [k \in DOMAIN members \cup {key} |-> IF k = key THEN item ELSE members[k]]
  BY <1>1, <1>2, <1>4 DEF members
<1>8. UNCHANGED elements /\ v.type \in {"null", "object"}
  BY <1>4, ElementsAre DEF MayBecome, Elements
<1> QED
  BY <1>4, <1>6, <1>7, <1>8 DEF DenseValues, Container!PutMember, Container!IsFunction

LEMMA SetMemberIs ==
  ASSUME v \in DenseValues, NEW key \in Key, NEW item \in Item, SetMember(key, item)
  PROVE  v' \in DenseValues /\ w' = w /\ Container!PutMember(key, item)
BY StoreIsPutMember DEF SetMember

LEMMA MemberIs ==
  ASSUME v \in DenseValues, NEW key \in Key, Member(key)
  PROVE  /\ v' \in DenseValues /\ w' = w
         /\ Container!PutMember(key, "null") \/ Container!Assign
<1> DEFINE x == Become(v, "object")
<1>1. /\ MayBecome(v, "object") /\ w' = w
      /\ v' = IF key \in DOMAIN x.map THEN x ELSE Store(x, key, "null")
  BY DEF Member, Reach
<1>2. x \in DenseValues
  BY <1>1, BecomesObject DEF DenseValues
<1>3. CASE v' = x
  BY <1>1, <1>2, <1>3, AnyIsAssigned
<1>4. CASE v' = Store(x, key, "null")
  BY <1>1, <1>4, StoreIsPutMember, ValueAssumption
<1> QED
  BY <1>1, <1>3, <1>4

LEMMA RemoveMemberIs ==
  ASSUME v \in DenseValues, NEW key \in Key, removeMember(key)
  PROVE  v' \in DenseValues /\ w' = w /\ Container!RemoveMember(key)
<1>1. v.type = "object" /\ v' = Without(v, {key}) /\ w' = w
  BY DEF removeMember
<1>2. v \in Objects
  BY <1>1 DEF DenseValues, DenseArrays, Objects, Others
<1>3. PICK S \in SUBSET Key : v.map \in [S -> Item]
  BY <1>2 DEF Objects
<1>4. /\ v'.type = "object"
      /\ v' = [type |-> "object", map |-> v'.map, comment |-> v.comment]
      /\ v'.map = [k \in S \ {key} |-> v.map[k]]
  BY <1>1, <1>2, <1>3 DEF Objects, Without
<1>5. v'.map \in [S \ {key} -> Item] /\ S \ {key} \in SUBSET Key /\ v.comment \in CommentTexts
  BY <1>2, <1>3, <1>4 DEF Objects
<1>6. v' \in Objects
  BY <1>4, <1>5 DEF Objects
<1>7. members' = [k \in DOMAIN members \ {key} |-> members[k]]
  BY <1>1, <1>3, <1>4 DEF members
<1>8. UNCHANGED elements
  BY <1>1, <1>4, ElementsAre DEF Elements
<1> QED
  BY <1>1, <1>4, <1>6, <1>7, <1>8 DEF DenseValues, Container!RemoveMember

-------------------------------------------------------------------------------
(* Values as a whole. *)

LEMMA NewValueIsDense ==
  ASSUME NEW type \in ValueType
  PROVE  Value(type) \in DenseValues
<1>1. /\ Empty \in Filled(0) /\ 0 \in 0..MaxSize
      /\ Empty \in [{} -> Item] /\ {} \in SUBSET Key
  BY ValueAssumption DEF Empty, Filled
<1> QED
  BY <1>1 DEF Value, DenseValues, DenseArrays, Objects, Others, CommentTexts, ValueType

(* A comment may be exchanged for another.                                 *)
LEMMA CommentIsApart ==
  ASSUME NEW x \in DenseValues, NEW c \in CommentTexts
  PROVE  [x EXCEPT !.comment = c] \in DenseValues /\ x.comment \in CommentTexts
BY DEF DenseValues, DenseArrays, Objects, Others

LEMMA ClearIs ==
  ASSUME v \in DenseValues, clear
  PROVE  v' \in DenseValues /\ w' = w /\ Container!Clear
<1>1. v.type # "scalar" /\ v' = [v EXCEPT !.map = Empty] /\ w' = w
  BY DEF clear
<1>2. v.type \in ValueType /\ v.comment \in CommentTexts
  BY DEF DenseValues, DenseArrays, Objects, Others, ValueType
<1>3. v' = [type |-> v.type, map |-> Empty, comment |-> v.comment]
  BY <1>1 DEF DenseValues, DenseArrays, Objects, Others
<1>4. v' = [Value(v.type) EXCEPT !.comment = v.comment]
  BY <1>3 DEF Value
<1>5. v' \in DenseValues /\ v'.type = v.type
  BY <1>2, <1>3, <1>4, NewValueIsDense, CommentIsApart
<1>6. members' = Empty
  BY <1>3 DEF members
<1>7. elements' = << >>
  <2>1. CASE v.type = "array"
    <3>1. v'.type = "array" /\ v'.map \in Filled(0) /\ 0 \in 0..MaxSize
      BY <1>3, <2>1, ValueAssumption DEF Filled, Empty
    <3>2. Elements(v') \in Seq(Item) /\ Len(Elements(v')) = 0
      BY <3>1, ArrayIs
    <3> QED
      BY <3>2, EmptySeq, ElementsAre
  <2>2. CASE v.type # "array"
    BY <1>5, <2>2, ElementsAre DEF Elements
  <2> QED
    BY <2>1, <2>2
<1> QED
  BY <1>1, <1>5, <1>6, <1>7 DEF Container!Clear, Empty, Container!NoMembers

(* A value that is no object has no members, and none that is no array has   *)
(* elements.                                                                 *)
LEMMA NoObject ==
  /\ v.type # "object" => members = Empty
  /\ v.type # "array" => elements = << >>
BY DEF members, elements

LEMMA InitIs == Init => Inv /\ Container!Init
<1> SUFFICES ASSUME Init PROVE Inv /\ Container!Init
  OBVIOUS
<1>1. v = Value("null") /\ w = Value("null") /\ Value("null") \in DenseValues
  BY NewValueIsDense DEF Init, ValueType
<1>2. v.type = "null"
  BY <1>1 DEF Value
<1> QED
  BY <1>1, <1>2, NoObject DEF Inv, Container!Init, Empty, Container!NoMembers

LEMMA NextIs ==
  ASSUME Inv, ~ SparseArrays, [Next]_vars
  PROVE  Inv' /\ [Container!Next]_(Container!container)
<1>0. v \in DenseValues /\ w \in DenseValues
  BY DEF Inv
<1>1. CASE Assign \/ Copy \/ swap
  <2>1. v' \in DenseValues /\ w' \in DenseValues
    BY <1>0, <1>1, NewValueIsDense DEF Assign, Copy, swap
  <2> QED
    BY <2>1, AnyIsAssigned DEF Inv, Container!Next
<1>2. CASE swapPayload
  <2>1. v' \in DenseValues /\ w' \in DenseValues
    <3>1. v.comment \in CommentTexts /\ w.comment \in CommentTexts
      BY <1>0 DEF DenseValues, DenseArrays, Objects, Others
    <3>2. v' = [w EXCEPT !.comment = v.comment] /\ w' = [v EXCEPT !.comment = w.comment]
      BY <1>2 DEF swapPayload
    <3> QED
      BY <1>0, <3>1, <3>2, CommentIsApart
  <2> QED
    BY <2>1, AnyIsAssigned DEF Inv, Container!Next
<1>3. CASE clear
  BY <1>0, <1>3, ClearIs DEF Inv, Container!Next
<1>4. ASSUME NEW n \in 0..MaxSize, resize(n)
      PROVE  Inv' /\ Container!Next
  BY <1>0, <1>4, ResizeIs DEF Inv, Container!Next
<1>5. ASSUME NEW i \in 0..MaxSize - 1, Element(i)
      PROVE  Inv' /\ Container!Next
  BY <1>0, <1>5, ElementIs DEF Inv, Container!Next
<1>6. ASSUME NEW i \in 0..MaxSize - 1, removeIndex(i)
      PROVE  Inv' /\ Container!Next
  BY <1>0, <1>6, RemoveIndexIs DEF Inv, Container!Next
<1>7. ASSUME NEW i \in 0..MaxSize - 1, NEW item \in Item, SetElement(i, item)
      PROVE  Inv' /\ Container!Next
  BY <1>0, <1>7, SetElementIs DEF Inv, Container!Next
<1>8. ASSUME NEW item \in Item, append(item)
      PROVE  Inv' /\ Container!Next
  BY <1>0, <1>8, AppendIs DEF Inv, Container!Next
<1>9. ASSUME NEW key \in Key, Member(key)
      PROVE  Inv' /\ Container!Next
  BY <1>0, <1>9, MemberIs, ValueAssumption DEF Inv, Container!Next
<1>10. ASSUME NEW key \in Key, removeMember(key)
       PROVE  Inv' /\ Container!Next
  BY <1>0, <1>10, RemoveMemberIs DEF Inv, Container!Next
<1>11. ASSUME NEW key \in Key, NEW item \in Item, SetMember(key, item)
       PROVE  Inv' /\ Container!Next
  BY <1>0, <1>11, SetMemberIs DEF Inv, Container!Next
<1>12. ASSUME NEW comment \in Comment, setComment(comment)
       PROVE  Inv' /\ Container!Next
  <2>1. v' \in DenseValues /\ w' = w
    BY <1>0, <1>12, CommentIsApart DEF setComment, CommentTexts
  <2> QED
    BY <1>0, <2>1, AnyIsAssigned DEF Inv, Container!Next
<1>13. CASE UNCHANGED vars
  BY <1>0, <1>13, ElementsAre DEF vars, Inv, members, Container!container, Elements, size,
     Indices, At
<1> QED
  BY <1>1, <1>2, <1>3, <1>4, <1>5, <1>6, <1>7, <1>8, <1>9, <1>10, <1>11, <1>12, <1>13
  DEF Next, Call

(* What IsContainer asks of each call. *)
CallsMatch ==
  /\ clear => Container!Clear
  /\ \A n \in 0..MaxSize : resize(n) => Container!Resize(n)
  /\ \A i \in 0..MaxSize - 1 :
       /\ Element(i) => Container!Touch(i)
       /\ removeIndex(i) => Container!RemoveIndex(i)
       /\ \A item \in Item : SetElement(i, item) => Container!Put(i, item)
  /\ \A item \in Item : append(item) => Container!Put(Len(elements), item)
  /\ \A key \in Key :
       /\ removeMember(key) => Container!RemoveMember(key)
       /\ \A item \in Item : SetMember(key, item) => Container!PutMember(key, item)

LEMMA CallsAreTheContainers ==
  ASSUME Inv, ~ SparseArrays
  PROVE  CallsMatch
BY ClearIs, ResizeIs, ElementIs, RemoveIndexIs, SetElementIs, AppendIs, RemoveMemberIs,
   SetMemberIs DEF CallsMatch, Inv

(* Built densely, a Json::Value is a sequence of elements or a function from *)
(* names to members, or neither, after any calls; and each call does to the  *)
(* sequence or the function what its name says: what an insertion, a removal *)
(* or a change of size does to one index or member, it does to no other.     *)
THEOREM ImplementsContainer ==
  ASSUME ~ SparseArrays
  PROVE  Spec => IsContainer
<1>1. Init => Inv /\ Container!Init
  BY InitIs
<1>2. Inv /\ [Next]_vars => Inv'
  BY NextIs
<1>3. Inv /\ [Next]_vars => [Container!Next]_(Container!container)
  BY NextIs
<1>4. Inv /\ [Next]_vars => [CallsMatch]_vars
  BY CallsAreTheContainers
<1>5. Spec => Container!Spec
  BY <1>1, <1>2, <1>3, PTL DEF Spec, Container!Spec
<1>6. Spec => [][CallsMatch]_vars
  BY <1>1, <1>2, <1>4, PTL DEF Spec
<1> QED
  BY <1>5, <1>6 DEF IsContainer, CallsMatch

(* The assert() in resize() holds of values built densely: it is only where  *)
(* elements were created beyond the end of an array that the size differs    *)
(* from the one asked for.                                                   *)
THEOREM DenseSizeIsAsked ==
  ASSUME ~ SparseArrays
  PROVE  Spec => []SizeIsAsked
<1> DEFINE I == Inv /\ SizeIsAsked
<1>1. Init => I
  BY InitIs DEF Init, SizeIsAsked
<1>2. I /\ [Next]_vars => I'
  <2> SUFFICES ASSUME Inv, SizeIsAsked, [Next]_vars PROVE SizeIsAsked'
    BY NextIs
  <2>1. ASSUME NEW n \in 0..MaxSize, resize(n) PROVE UNCHANGED aborted
    BY <2>1, ResizeIs DEF Inv
  <2>2. CASE \E n \in 0..MaxSize : resize(n)
    BY <2>1, <2>2 DEF SizeIsAsked
  <2>3. CASE UNCHANGED aborted
    BY <2>3 DEF SizeIsAsked
  <2>4. UNCHANGED aborted \/ \E n \in 0..MaxSize : resize(n)
    BY DEF Next, Call, vars, Assign, Copy, swap, swapPayload, clear, Element, removeIndex,
       SetElement, append, Member, removeMember, SetMember, setComment
  <2> QED
    BY <2>2, <2>3, <2>4
<1>3. I => SizeIsAsked
  OBVIOUS
<1> HIDE DEF I
<1> QED
  BY <1>1, <1>2, <1>3, PTL DEF Spec

-------------------------------------------------------------------------------
(* Conversions. *)

(* Int and UInt are small enough for doubles to hold them; of the limits of the larger types *)
(* only the least is a double.                                             *)
LEMMA ConvertTypes ==
  ASSUME Convert!ConvertAssumption
  PROVE
  /\ maxIntOfValue \in Nat /\ maxInt64OfValue \in Nat /\ Exact \in Nat
  /\ 2 * maxIntOfValue + 1 <= Exact /\ maxIntOfValue <= maxInt64OfValue
  /\ Reals \subseteq Int
BY DEF Convert!ConvertAssumption, Convert!maxUInt

LEMMA LimitsOfDoubles ==
  ASSUME Convert!ConvertAssumption
  PROVE
  /\ double(0) = 0 /\ double(Convert!minInt) = Convert!minInt
  /\ double(maxIntOfValue) = maxIntOfValue /\ double(Convert!minInt64) = Convert!minInt64
  /\ double(Convert!maxUInt) = Convert!maxUInt
BY ConvertTypes
   DEF Convert!ConvertAssumption, Convert!Integers64, Convert!minInt, Convert!maxUInt,
       Convert!minInt64, Convert!maxUInt64

(* What a double may hold is below the double of a limit only if it is at most the limit.   *)
LEMMA BelowLimit ==
  ASSUME Convert!ConvertAssumption, NEW r \in Reals, r % 2 = 0, NEW limit \in Convert!Integers64, r < 2 * double(limit)
  PROVE  r <= 2 * limit
<1>1. double(r \div 2) = r \div 2 /\ r \div 2 \in Convert!Whole /\ limit \in Convert!Whole
  BY DEF Convert!ConvertAssumption, Convert!Whole
<1>2. r \in Int /\ r = 2 * (r \div 2) /\ limit \in Int
  BY ConvertTypes DEF Convert!Integers64, Convert!minInt64, Convert!maxUInt64
<1>3. limit <= r \div 2 => double(limit) <= r \div 2
  BY <1>1 DEF Convert!ConvertAssumption
<1>4. double(limit) \in Int
  BY <1>1 DEF Convert!ConvertAssumption
<1> QED
  BY <1>2, <1>3, <1>4

LEMMA OperandTypes ==
  ASSUME Convert!ConvertAssumption, NEW u \in Convert!Operands
  PROVE  /\ u.type \in Convert!Types /\ u.twice \in Int
         /\ u.type = "int" => \E n \in Convert!minInt64..maxInt64OfValue : u.twice = 2 * n
         /\ u.type = "uint" => \E n \in 0..Convert!maxUInt64 : u.twice = 2 * n
         /\ u.type = "real" => u.twice \in Reals
         /\ u.type = "boolean" => u.twice \in {0, 2}
         /\ u.type = "null" => u.twice = 0
<1>1. Convert!minInt64 \in Int /\ Convert!maxUInt64 \in Int /\ maxInt64OfValue \in Int /\ Reals \subseteq Int
  BY ConvertTypes DEF Convert!minInt64, Convert!maxUInt64
<1>2. \A type, S : u \in Convert!Of(type, S) => u.type = type /\ u.twice \in S
  BY DEF Convert!Of
<1>3. CASE u \in Convert!Of("int", Convert!Doubled(Convert!minInt64..maxInt64OfValue))
  BY <1>1, <1>2, <1>3 DEF Convert!Doubled, Convert!Types
<1>4. CASE u \in Convert!Of("uint", Convert!Doubled(0..Convert!maxUInt64))
  BY <1>1, <1>2, <1>4 DEF Convert!Doubled, Convert!Types
<1>5. CASE u \in Convert!Of("real", Reals)
  BY <1>1, <1>5, ConvertTypes DEF Convert!Of, Convert!Types
<1>6. CASE u \in Convert!Of("null", {0})
  BY <1>2, <1>6 DEF Convert!Types
<1>7. ASSUME NEW type \in {"boolean", "string", "array", "object"}, u \in Convert!Of(type, {0, 2})
      PROVE  u.type = type /\ u.twice \in {0, 2}
  BY <1>2, <1>7
<1> QED
  BY <1>3, <1>4, <1>5, <1>6, <1>7 DEF Convert!Operands, Convert!Types

LEMMA CastIs ==
  ASSUME NEW u, u.twice \in Int, NEW low \in Int, NEW high \in Int,
         2 * low <= u.twice, u.twice <= 2 * high
  PROVE  /\ Convert!Cast(u, low, high).is = "number"
         /\ u.twice % 2 = 0 => Convert!Cast(u, low, high) = Convert!Answer(u.twice)
<1> DEFINE cut == IF u.twice >= 0 THEN (u.twice \div 2) * 2 ELSE - ((- u.twice) \div 2) * 2
<1>1. cut \in Int /\ 2 * low <= cut /\ cut <= 2 * high
  OBVIOUS
<1>2. u.twice % 2 = 0 => cut = u.twice
  OBVIOUS
<1> QED
  BY <1>1, <1>2 DEF Convert!Cast, Convert!Answer

LEMMA IntegersExact ==
  ASSUME Convert!ConvertAssumption, NEW u \in Convert!Operands
  PROVE  /\ Convert!isInt(u) => Convert!asInt(u) = Convert!Answer(u.twice)
         /\ Convert!isUInt(u) => Convert!asUInt(u) = Convert!Answer(u.twice)
         /\ Convert!isInt64(u) => Convert!asInt64(u) = Convert!Answer(u.twice)
         /\ Convert!isUInt64(u) => Convert!asUInt64(u) = Convert!Answer(u.twice)
<1>1. /\ u.twice \in Int /\ Convert!minInt \in Int /\ maxIntOfValue \in Int /\ Convert!maxUInt \in Int
      /\ Convert!minInt64 \in Int /\ maxInt64OfValue \in Int /\ Convert!maxUInt64 \in Int
      /\ maxInt64OfValue \in Convert!Integers64 /\ Convert!maxUInt64 \in Convert!Integers64
      /\ 0 \in Convert!Integers64
  BY OperandTypes, ConvertTypes
     DEF Convert!minInt, Convert!maxUInt, Convert!minInt64, Convert!maxUInt64, Convert!Integers64
<1>2. u.type \in {"int", "uint"} => u.twice % 2 = 0
  BY OperandTypes, <1>1
<1>3. Convert!isInt(u) => /\ u.type \in {"int", "uint", "real"} /\ u.twice % 2 = 0
                          /\ 2 * Convert!minInt <= u.twice /\ u.twice <= 2 * maxIntOfValue
  BY <1>1, <1>2, LimitsOfDoubles, ConvertTypes
     DEF Convert!isInt, Convert!Between, Convert!InRange, Convert!IsIntegral, Convert!minInt
<1>4. Convert!isUInt(u) => /\ u.type \in {"int", "uint", "real"} /\ u.twice % 2 = 0
                           /\ 0 <= u.twice /\ u.twice <= 2 * Convert!maxUInt
  BY <1>1, <1>2, LimitsOfDoubles, ConvertTypes
     DEF Convert!isUInt, Convert!Between, Convert!InRange, Convert!IsIntegral
<1>5. Convert!isInt64(u) => /\ u.type \in {"int", "uint", "real"} /\ u.twice % 2 = 0
                            /\ 2 * Convert!minInt64 <= u.twice /\ u.twice <= 2 * maxInt64OfValue
  <2>1. CASE u.type = "real"
    BY <2>1, <1>1, OperandTypes, LimitsOfDoubles, BelowLimit DEF Convert!isInt64, Convert!IsIntegral
  <2>2. CASE u.type # "real"
    BY <2>2, <1>1, <1>2, OperandTypes, ConvertTypes DEF Convert!isInt64, Convert!Between, Convert!minInt64
  <2> QED
    BY <2>1, <2>2
<1>6. Convert!isUInt64(u) => /\ u.type \in {"int", "uint", "real"} /\ u.twice % 2 = 0
                             /\ 0 <= u.twice /\ u.twice <= 2 * Convert!maxUInt64
  <2>1. CASE u.type = "real"
    BY <2>1, <1>1, OperandTypes, LimitsOfDoubles, BelowLimit DEF Convert!isUInt64, Convert!IsIntegral
  <2>2. CASE u.type # "real"
    BY <2>2, <1>1, <1>2, OperandTypes, ConvertTypes DEF Convert!isUInt64, Convert!maxUInt64
  <2> QED
    BY <2>1, <2>2
<1>7. ASSUME NEW fits, NEW low \in Int, NEW high \in Int, fits,
             u.type \in {"int", "uint", "real"}, u.twice % 2 = 0, 2 * low <= u.twice, u.twice <= 2 * high,
             u.type = "real" => Convert!InRange(u, low, high)
      PROVE  Convert!AsInteger(u, fits, low, high) = Convert!Answer(u.twice)
  BY <1>1, <1>7, CastIs DEF Convert!AsInteger
<1>8. u.type = "real" => /\ Convert!isInt(u) => Convert!InRange(u, Convert!minInt, maxIntOfValue)
                         /\ Convert!isUInt(u) => Convert!InRange(u, 0, Convert!maxUInt)
                         /\ Convert!isInt64(u) => Convert!InRange(u, Convert!minInt64, maxInt64OfValue)
                         /\ Convert!isUInt64(u) => Convert!InRange(u, 0, Convert!maxUInt64)
  <2>1. double(maxInt64OfValue) \in Int /\ double(Convert!maxUInt64) \in Int
    BY <1>1 DEF Convert!ConvertAssumption, Convert!Whole
  <2> QED
    BY <2>1, <1>1, LimitsOfDoubles, ConvertTypes
       DEF Convert!isInt, Convert!isUInt, Convert!isInt64, Convert!isUInt64, Convert!InRange, Convert!Between
<1>9. Convert!isInt(u) => Convert!asInt(u) = Convert!Answer(u.twice)
  BY <1>1, <1>3, <1>7, <1>8 DEF Convert!asInt
<1>13. ASSUME NEW fits, NEW high \in Int, fits,
             u.type \in {"int", "uint", "real"}, u.twice % 2 = 0, 0 <= u.twice, u.twice <= 2 * high,
             u.type = "real" => Convert!InRange(u, 0, high)
      PROVE  Convert!AsInteger(u, fits, 0, high) = Convert!Answer(u.twice)
  <2>1. ASSUME NEW low \in Int, low = 0
        PROVE  Convert!AsInteger(u, fits, low, high) = Convert!Answer(u.twice)
    <3>1. 2 * low <= u.twice /\ (u.type = "real" => Convert!InRange(u, low, high))
      BY <1>1, <1>13, <2>1
    <3> QED
      BY <1>13, <3>1, <1>7
  <2> QED
    BY <2>1
<1>10. Convert!isUInt(u) => Convert!asUInt(u) = Convert!Answer(u.twice)
  BY <1>1, <1>4, <1>13, <1>8 DEF Convert!asUInt
<1>11. Convert!isInt64(u) => Convert!asInt64(u) = Convert!Answer(u.twice)
  BY <1>1, <1>5, <1>7, <1>8 DEF Convert!asInt64
<1>12. Convert!isUInt64(u) => Convert!asUInt64(u) = Convert!Answer(u.twice)
  BY <1>1, <1>6, <1>13, <1>8 DEF Convert!asUInt64
<1> QED
  BY <1>9, <1>10, <1>11, <1>12

LEMMA ConvertedIfConvertible ==
  ASSUME Convert!ConvertAssumption, NEW u \in Convert!Operands, NEW other \in Convert!Conversions,
         Convert!isConvertibleTo(u, other)
  PROVE  Convert!As(u, other).is = "number"
<1>1. u.twice \in Int /\ u.type \in Convert!Types
  BY OperandTypes
<1>2. CASE other = "int"
  <2>1. CASE Convert!isInt(u)
    BY <2>1, <1>2, IntegersExact DEF Convert!As, Convert!Answer
  <2>2. CASE u.type = "real" /\ Convert!InRange(u, Convert!minInt, maxIntOfValue)
    BY <2>2, <1>1, <1>2, CastIs, LimitsOfDoubles, ConvertTypes
       DEF Convert!As, Convert!asInt, Convert!AsInteger, Convert!InRange, Convert!Between, Convert!minInt
  <2>3. CASE u.type \in {"boolean", "null"}
    BY <2>3, <1>2 DEF Convert!As, Convert!asInt, Convert!AsInteger, Convert!Answer
  <2> QED
    BY <2>1, <2>2, <2>3, <1>2 DEF Convert!isConvertibleTo
<1>3. CASE other = "uint"
  <2>1. CASE Convert!isUInt(u)
    BY <2>1, <1>3, IntegersExact DEF Convert!As, Convert!Answer
  <2>2. CASE u.type = "real" /\ Convert!InRange(u, 0, Convert!maxUInt)
    BY <2>2, <1>1, <1>3, CastIs, LimitsOfDoubles, ConvertTypes
       DEF Convert!As, Convert!asUInt, Convert!AsInteger, Convert!InRange, Convert!Between, Convert!maxUInt
  <2>3. CASE u.type \in {"boolean", "null"}
    BY <2>3, <1>3 DEF Convert!As, Convert!asUInt, Convert!AsInteger, Convert!Answer
  <2> QED
    BY <2>1, <2>2, <2>3, <1>3 DEF Convert!isConvertibleTo
<1>4. Convert!isNumeric(u) => u.type \in {"int", "uint", "real"}
  BY DEF Convert!isNumeric, Convert!isIntegral, Convert!isDouble, Convert!isInt64, Convert!isUInt64
<1>5. CASE other = "real"
  BY <1>4, <1>5 DEF Convert!isConvertibleTo, Convert!As, Convert!asDouble, Convert!Answer
<1>6. CASE other = "boolean"
  BY <1>4, <1>6 DEF Convert!isConvertibleTo, Convert!As, Convert!asBool, Convert!IsPlain, Convert!Answer
<1>7. CASE other = "string"
  BY <1>4, <1>7 DEF Convert!isConvertibleTo, Convert!As, Convert!asString, Convert!IsPlain, Convert!Answer
<1> QED
  BY <1>2, <1>3, <1>5, <1>6, <1>7 DEF Convert!Conversions

(* Every conversion that a value offers is one it can do, for every width  *)
(* of the integers and every way doubles are rounded.                      *)
THEOREM ConvertibleAlwaysConverts ==
  ASSUME Convert!ConvertAssumption
  PROVE  Convert!Spec => []ConvertibleConverts
<1>1. Convert!Init => operand \in Convert!Operands
  BY DEF Convert!Init
<1>2. operand \in Convert!Operands /\ [Convert!Next]_(Convert!vars) => (operand \in Convert!Operands)'
  BY DEF Convert!Next, Convert!vars, Convert!Operands
<1>3. operand \in Convert!Operands => Convert!ConvertibleConverts
  <2> SUFFICES ASSUME operand \in Convert!Operands
               PROVE  Convert!ConvertibleConverts
    OBVIOUS
  <2>1. Convert!isConvertibleTo(operand, "null") /\ Convert!IsPlain(operand)
          => Convert!asBool(operand) = Convert!Answer(0)
    <3>1. Convert!isConvertibleTo(operand, "null") /\ Convert!IsPlain(operand) => operand.twice = 0
      BY OperandTypes DEF Convert!isConvertibleTo, Convert!IsPlain
    <3> QED
      BY <3>1 DEF Convert!asBool
  <2> QED
    BY <2>1, IntegersExact, ConvertedIfConvertible DEF Convert!ConvertibleConverts
<1>4. Convert!ConvertibleConverts => ConvertibleConverts
  BY DEF ConvertibleConverts
<1> QED
  BY <1>1, <1>2, <1>3, <1>4, PTL DEF Convert!Spec, Convert!vars

-------------------------------------------------------------------------------
(* Induction, and folds: what a fold comes to is a chain from the base, one  *)
(* turn a link.                                                              *)

(* Induction, over sets of natural numbers. *)
LEMMA LeastNumber ==
  ASSUME NEW S \in SUBSET Nat, S # {}
  PROVE  \E n \in S : \A m \in S : n <= m
<1> DEFINE Smaller == {ss \in Nat \X Nat : ss[1] < ss[2]}
<1>1. IsWellFoundedOn(Smaller, Nat)
  BY NatLessThanWellFounded DEF OpToRel
<1> HIDE DEF Smaller
<1>2. PICK n \in S : \A m \in S : ~ (<<m, n>> \in Smaller)
  BY <1>1, WFMin
<1>3. \A m \in S : ~ (m < n)
  BY <1>2 DEF Smaller
<1> QED
  BY <1>3

LEMMA SetInduction ==
  ASSUME NEW S, 0 \in S, \A n \in Nat : n \in S => n + 1 \in S
  PROVE  Nat \subseteq S
<1> SUFFICES ASSUME Nat \ S # {}
             PROVE  FALSE
  OBVIOUS
<1>1. PICK n \in Nat \ S : \A m \in Nat \ S : n <= m
  BY LeastNumber
<1>2. n # 0 /\ n - 1 \in Nat /\ n - 1 \in S
  BY <1>1
<1> QED
  BY <1>1, <1>2

LEMMA LastNumber ==
  ASSUME NEW n \in Nat, NEW S \in SUBSET (1..n), S # {}
  PROVE  Max(S) \in S /\ \A m \in S : m <= Max(S)
<1> DEFINE flipped == {n - m : m \in S}
<1>1. flipped \in SUBSET Nat /\ flipped # {}
  <2>1. PICK x \in S : TRUE
    OBVIOUS
  <2>2. n - x \in flipped
    OBVIOUS
  <2>3. \A m \in S : n - m \in Nat
    OBVIOUS
  <2> QED
    BY <2>2, <2>3
<1>2. PICK k \in flipped : \A m \in flipped : k <= m
  BY <1>1, LeastNumber
<1>3. \E x \in S : \A y \in S : x >= y
  <2>1. PICK x \in S : k = n - x
    BY <1>2
  <2>2. ASSUME NEW y \in S PROVE x >= y
    <3>1. n - y \in flipped
      OBVIOUS
    <3> QED
      BY <1>2, <2>1, <3>1
  <2> QED
    BY <2>1, <2>2, Zenon
<1> QED
  BY <1>3 DEF Max

(* A fold is defined for every part of its indices. *)
Turns(n, M) == [1..n -> [M -> M]]
Iterates(it, n, M, base, step) ==
  /\ it \in [SUBSET (1..n) -> M]
  /\ \A s \in SUBSET (1..n) : it[s] = IF s = {} THEN base ELSE step[Max(s)][it[s \ {Max(s)}]]

LEMMA FoldExists ==
  ASSUME NEW n \in Nat, NEW M, NEW base \in M, NEW step \in Turns(n, M)
  PROVE  \E it : Iterates(it, n, M, base, step)
<1> DEFINE Sub(k) == SUBSET (1..k)
           Is(k, it) == /\ it \in [Sub(k) -> M]
                        /\ \A s \in Sub(k) : it[s] = IF s = {} THEN base ELSE step[Max(s)][it[s \ {Max(s)}]]
           K == {k \in Nat : k <= n => \E it : Is(k, it)}
<1> USE DEF Turns
<1>1. 0 \in K
  <2> DEFINE it == [s \in Sub(0) |-> base]
  <2>1. Sub(0) = {{}}
    OBVIOUS
  <2>2. it \in [Sub(0) -> M] /\ \A s \in Sub(0) : s = {} /\ it[s] = base
    BY <2>1
  <2> HIDE DEF it
  <2>3. Is(0, it)
    BY <2>2
  <2> HIDE DEF Is
  <2> QED
    BY <2>3
<1>2. ASSUME NEW k \in Nat, k + 1 <= n, NEW it, Is(k, it)
      PROVE  \E jt : Is(k + 1, jt)
  <2> DEFINE last(s) == s \ {k + 1}
             jt == [s \in Sub(k + 1) |-> IF k + 1 \in s THEN step[k + 1][it[last(s)]] ELSE it[s]]
  <2>2. ASSUME NEW s \in Sub(k + 1)
        PROVE  /\ last(s) \in Sub(k)
               /\ k + 1 \notin s => s \in Sub(k)
               /\ k + 1 \in s => Max(s) = k + 1
               /\ s # {} => Max(s) \in s /\ Max(s) \in 1..n
    <3>1. s # {} => Max(s) \in s /\ \A m \in s : m <= Max(s)
      <4>1. s \in SUBSET (1..k + 1) /\ k + 1 \in Nat
        OBVIOUS
      <4> QED
        BY <4>1, LastNumber
    <3>2. \A m \in s : m \in 1..k + 1
      OBVIOUS
    <3>3. ASSUME k + 1 \in s PROVE Max(s) = k + 1
      <4>1. Max(s) \in s /\ k + 1 <= Max(s)
        BY <3>1, <3>3
      <4>2. Max(s) \in 1..k + 1
        BY <3>2, <4>1
      <4> QED
        BY <4>1, <4>2
    <3>4. ASSUME s # {} PROVE Max(s) \in s /\ Max(s) \in 1..n
      <4>1. Max(s) \in s
        BY <3>1, <3>4
      <4>2. Max(s) \in 1..k + 1
        BY <3>2, <4>1
      <4> QED
        BY <1>2, <4>1, <4>2
    <3>5. last(s) \in Sub(k)
      BY <3>2
    <3>6. k + 1 \notin s => s \in Sub(k)
      BY <3>2
    <3> QED
      BY <3>3, <3>4, <3>5, <3>6
  <2>3. jt \in [Sub(k + 1) -> M]
    BY <1>2, <2>2
  <2>4. ASSUME NEW s \in Sub(k + 1)
        PROVE  jt[s] = IF s = {} THEN base ELSE step[Max(s)][jt[s \ {Max(s)}]]
    <3>1. CASE k + 1 \in s
      <4>1. jt[s] = step[k + 1][it[last(s)]] /\ jt[last(s)] = it[last(s)]
        BY <3>1, <2>2, last(s) \in Sub(k + 1)
      <4> QED
        BY <4>1, <3>1, <2>2
    <3>2. CASE k + 1 \notin s
      <4>1. s \in Sub(k) /\ jt[s] = it[s]
        BY <3>2, <2>2
      <4>2. s # {} => s \ {Max(s)} \in Sub(k + 1) /\ k + 1 \notin s \ {Max(s)}
        BY <3>2
      <4>3. s # {} => jt[s \ {Max(s)}] = it[s \ {Max(s)}]
        BY <4>2
      <4> QED
        BY <4>1, <4>3, <1>2
    <3> QED
      BY <3>1, <3>2
  <2> HIDE DEF jt
  <2> QED
    BY <2>3, <2>4
<1> HIDE DEF Is
<1>3. n \in K
  <2>1. \A k \in Nat : k \in K => k + 1 \in K
    BY <1>2
  <2> QED
    BY <1>1, <2>1, SetInduction
<1>4. PICK it : Is(n, it)
  BY <1>3
<1> QED
  BY <1>4 DEF Is, Iterates

LEMMA InitialPart ==
  ASSUME NEW n \in Nat
  PROVE  \A k \in 1..n : Max(1..k) = k /\ (1..k) \ {k} = 1..k - 1 /\ 1..k # {}
<1>1. ASSUME NEW k \in 1..n PROVE Max(1..k) \in 1..k /\ k <= Max(1..k)
  <2>1. k \in Nat /\ 1..k \in SUBSET (1..k) /\ k \in 1..k
    OBVIOUS
  <2> QED
    BY <2>1, LastNumber
<1> QED
  BY <1>1

(* What a fold comes to, part by part.                                     *)
Folds(f, n, M, base, step) ==
  /\ f \in [0..n -> M] /\ f[0] = base
  /\ \A k \in 1..n : f[k] = step[k][f[k - 1]]

(* ... found in any function that takes the turns where they are defined.  *)
TakesTurns(g, n, M, base, step) ==
  /\ g[{}] = base
  /\ \A p \in SUBSET (1..n) :
       p # {} /\ g[p \ {Max(p)}] \in M => g[p] = step[Max(p)][g[p \ {Max(p)}]]

LEMMA FoldIs ==
  ASSUME NEW n \in Nat, NEW M, NEW base \in M, NEW step \in Turns(n, M), NEW g,
         TakesTurns(g, n, M, base, step)
  PROVE  \E f : Folds(f, n, M, base, step) /\ f[n] = g[1..n]
<1>1. 1..0 = {} /\ \A k \in 1..n : 1..k \in SUBSET (1..n)
  OBVIOUS
<1>2. g[1..0] = base
  BY <1>1 DEF TakesTurns
<1>3. ASSUME NEW k \in 1..n, g[1..k - 1] \in M
      PROVE  g[1..k] = step[k][g[1..k - 1]] /\ g[1..k] \in M
  <2>1. g[1..k] = step[k][g[1..k - 1]]
    BY <1>1, <1>3, InitialPart DEF TakesTurns
  <2> QED
    BY <1>3, <2>1 DEF Turns
<1> DEFINE K == {k \in Nat : k <= n => g[1..k] \in M}
<1>5. \A k \in 0..n : g[1..k] \in M
  <2>1. \A k \in Nat : k \in K
    <3>1. 0 \in K
      BY <1>2
    <3>2. ASSUME NEW k \in Nat, k \in K PROVE k + 1 \in K
      <4>1. CASE k + 1 <= n
        <5>1. k + 1 \in 1..n /\ (k + 1) - 1 = k /\ g[1..k] \in M
          BY <3>2, <4>1
        <5> QED
          BY <5>1, <1>3
      <4> QED
        BY <4>1
    <3> HIDE DEF K
    <3> QED
      BY <3>1, <3>2, SetInduction
  <2> QED
    BY <2>1
<1> DEFINE f == [k \in 0..n |-> g[1..k]]
<1>6. f \in [0..n -> M] /\ \A k \in 0..n : f[k] = g[1..k]
  BY <1>5
<1> HIDE DEF f
<1>7. 0 \in 0..n /\ n \in 0..n /\ \A k \in 1..n : k \in 0..n /\ k - 1 \in 0..n
  OBVIOUS
<1>8. \A k \in 1..n : f[k] = step[k][f[k - 1]]
  BY <1>3, <1>5, <1>6, <1>7
<1> QED
  BY <1>2, <1>6, <1>7, <1>8 DEF Folds

-------------------------------------------------------------------------------
(* The value of digits. *)

(* A name for the integers, which the provers can take for a set like any other. *)
Numbers == Int

LEMMA PositionalIs ==
  ASSUME NEW s \in Seq(Int), NEW base \in Int, NEW zero \in Int
  PROVE  \E f \in [0..Len(s) -> Int] :
           /\ f[0] = 0 /\ Text!Positional(s, base, zero) = f[Len(s)]
           /\ \A k \in 1..Len(s) : f[k] = (f[k - 1] * base) + (s[k] - zero)
<1> DEFINE n == Len(s)
           step == [i \in 1..n |-> [m \in Numbers |-> (m * base) + (s[i] - zero)]]
           Is(it) == it = [p \in SUBSET DOMAIN s |->
                             IF p = {} THEN 0 ELSE LET x == Max(p) IN (it[p \ {x}] * base) + (s[x] - zero)]
<1>1. n \in Nat /\ DOMAIN s = 1..n /\ \A i \in 1..n : s[i] \in Int
  OBVIOUS
<1>2. step \in Turns(n, Numbers) /\ 0 \in Numbers
  BY <1>1 DEF Turns, Numbers
<1>3. PICK it \in [SUBSET (1..n) -> Numbers] : \A p \in SUBSET (1..n) :
                    it[p] = IF p = {} THEN 0 ELSE step[Max(p)][it[p \ {Max(p)}]]
  <2> HIDE DEF step
  <2>2. \E it : Iterates(it, n, Numbers, 0, step)
    BY <1>1, <1>2, FoldExists
  <2> QED
    BY <2>2 DEF Iterates
<1>4. Is(it)
  <2>1. ASSUME NEW p \in SUBSET (1..n), p # {}
        PROVE  it[p] = (it[p \ {Max(p)}] * base) + (s[Max(p)] - zero)
    <3>1. Max(p) \in 1..n /\ it[p \ {Max(p)}] \in Numbers
      BY <2>1, <1>1, LastNumber
    <3> QED
      BY <3>1, <2>1, <1>3
  <2> QED
    BY <1>1, <1>3, <2>1
<1>5. \E g : Is(g)
  BY <1>4
<1>6. PICK g : Is(g) /\ Text!Positional(s, base, zero) = g[DOMAIN s]
  BY <1>5 DEF Text!Positional, Text!FoldLeft, Text!MapThenFoldSet, Text!Max, Max
<1>7. \E f : Folds(f, n, Numbers, 0, step) /\ f[n] = g[1..n]
  <2>1. \A p \in SUBSET (1..n) : g[p] = IF p = {} THEN 0 ELSE (g[p \ {Max(p)}] * base) + (s[Max(p)] - zero)
    BY <1>6, <1>1
  <2>2. ASSUME NEW p \in SUBSET (1..n), p # {}, g[p \ {Max(p)}] \in Numbers
        PROVE  g[p] = step[Max(p)][g[p \ {Max(p)}]]
    <3>1. Max(p) \in 1..n
      BY <2>2, <1>1, LastNumber
    <3> QED
      BY <2>1, <2>2, <3>1 DEF Numbers
  <2>3. g[{}] = 0
    BY <2>1
  <2>4. TakesTurns(g, n, Numbers, 0, step)
    BY <2>2, <2>3 DEF TakesTurns
  <2> HIDE DEF step, Is, n
  <2> QED
    BY <1>1, <1>2, <2>4, FoldIs
<1>8. PICK f : Folds(f, n, Numbers, 0, step) /\ f[n] = g[1..n]
  BY <1>7
<1>9. \A k \in 1..n : f[k - 1] \in Int /\ f[k] = (f[k - 1] * base) + (s[k] - zero)
  <2>1. \A k \in 1..n : k - 1 \in 0..n
    BY <1>1
  <2> QED
    BY <1>8, <2>1 DEF Folds, Numbers
<1>10. f \in [0..n -> Int] /\ f[0] = 0 /\ Text!Positional(s, base, zero) = f[n]
  BY <1>1, <1>6, <1>8 DEF Folds, Numbers
<1> QED
  BY <1>9, <1>10

Decimal(s) == Text!Positional(s, 10, 48)

LEMMA DecimalIs ==
  ASSUME NEW s \in Seq(Int)
  PROVE  \E f \in [0..Len(s) -> Int] :
           /\ f[0] = 0 /\ Decimal(s) = f[Len(s)]
           /\ \A k \in 1..Len(s) : f[k] = (f[k - 1] * 10) + (s[k] - 48)
<1>1. ASSUME NEW base \in Int, base = 10, NEW zero \in Int, zero = 48
      PROVE  \E f \in [0..Len(s) -> Int] :
               /\ f[0] = 0 /\ Text!Positional(s, base, zero) = f[Len(s)]
               /\ \A k \in 1..Len(s) : f[k] = (f[k - 1] * base) + (s[k] - zero)
  BY PositionalIs
<1> QED
  BY <1>1 DEF Decimal

-------------------------------------------------------------------------------
(* Where a token ends. *)

LEMMA MinIs ==
  ASSUME NEW S \in SUBSET Int, NEW n \in S, \A m \in S : n <= m
  PROVE  Text!Min(S) = n
<1>1. \A k \in S : (\A m \in S : k <= m) => k = n
  <2> SUFFICES ASSUME NEW k \in S, \A m \in S : k <= m
               PROVE  k = n
    OBVIOUS
  <2>1. k <= n /\ n <= k /\ k \in Int /\ n \in Int
    OBVIOUS
  <2> QED
    BY <2>1
<1>2. Text!Min(S) \in S /\ \A m \in S : Text!Min(S) <= m
  BY DEF Text!Min
<1> QED
  BY <1>1, <1>2

(* FirstFrom, for the set of the places where to stop. *)
IsFirst(k, Stops, n) ==
  /\ n \in Nat /\ Stops \in SUBSET (1..n) /\ k \in 1..n + 1
  /\ k \in Stops \/ k = n + 1
  /\ \A j \in Stops : k <= j

LEMMA FirstIs ==
  ASSUME NEW k, NEW Stops, NEW n, IsFirst(k, Stops, n)
  PROVE  Text!Min(Stops \cup {n + 1}) = k
<1>1. Stops \cup {n + 1} \in SUBSET Int /\ k \in Stops \cup {n + 1} /\ \A m \in Stops \cup {n + 1} : k <= m
  BY DEF IsFirst
<1> QED
  BY <1>1, MinIs

LEMMA FirstBytes ==
  /\ DOMAIN Text!Structural = {123, 125, 91, 93, 44, 58, 0} /\ DOMAIN Text!Words = {116, 102, 110}
BY DEF Text!Structural, Text!COMMA, Text!COLON, Text!NUL, Text!Words

LEMMA AfterIs ==
  ASSUME NEW d \in Seq(Int), NEW i \in 1..Len(d)
  PROVE  Text!After(d, i) = i + 1 /\ Text!Next_(d, i) = d[i]
<1>1. {i + 1, Text!end(d)} \in SUBSET Int /\ i + 1 \in {i + 1, Text!end(d)}
        /\ \A m \in {i + 1, Text!end(d)} : i + 1 <= m
  BY DEF Text!end
<1>2. Text!Min({i + 1, Text!end(d)}) = i + 1
  BY <1>1, MinIs
<1> QED
  BY <1>2 DEF Text!After, Text!Next_, Text!end

LEMMA NextAtEnd ==
  ASSUME NEW d \in Seq(Int), NEW i \in Int, i > Len(d)
  PROVE  Text!Next_(d, i) = 0
BY DEF Text!Next_, Text!end, Text!NUL

LEMMA NumberToken ==
  ASSUME NEW d \in Seq(Int), d # << >>, d[1] = 45 \/ d[1] \in 48..57,
         \A i \in 2..Len(d) : d[i] \in 48..57
  PROVE  Text!readToken(d, 1) = Text!Token("Number", 1, Len(d) + 1)
<1> DEFINE n == Len(d)
<1>1. n \in Nat /\ 1 <= n /\ 1 \in 1..n
  OBVIOUS
<1>2. Text!skipSpaces(d, 1) = 1
  <2> DEFINE Stops == {j \in 1..n : d[j] \notin {Text!SP, Text!TAB, Text!CR, Text!LF}}
  <2>1. 1 \in Stops
    BY <1>1, SMTT(40) DEF Text!SP, Text!TAB, Text!CR, Text!LF
  <2>2. IsFirst(1, Stops, n)
    BY <2>1, <1>1 DEF IsFirst
  <2>4. Text!Min(Stops \cup {n + 1}) = 1
    BY <2>2, FirstIs
  <2> QED
    BY <2>4 DEF Stops, Text!skipSpaces, Text!FirstFrom, Text!end
<1>3. Text!Next_(d, 1) = d[1] /\ Text!After(d, 1) = 2
  BY <1>1, AfterIs
<1>4. Text!readNumber(d, 2) = n + 1
  <2> DEFINE Stops == {j \in 2..n : d[j] \notin Text!DIGITS}
  <2>1. Stops = {}
    BY DEF Text!DIGITS
  <2>2. Text!Min(Stops \cup {n + 1}) = n + 1
    <3>1. IsFirst(n + 1, {}, n)
      BY <1>1 DEF IsFirst
    <3> QED
      BY <2>1, <3>1, FirstIs
  <2>3. Text!FirstFrom(d, 2, LAMBDA k : d[k] \notin Text!DIGITS) = n + 1
    BY <2>2 DEF Text!FirstFrom, Text!end
  <2>4. Text!Next_(d, n + 1) = 0
    BY NextAtEnd, <1>1
  <2> QED
    BY <2>3, <2>4 DEF Text!readNumber, Text!POINT
<1>5. /\ d[1] \notin DOMAIN Text!Structural /\ d[1] \notin DOMAIN Text!Words
      /\ d[1] # Text!QUOTE /\ d[1] # Text!SLASH /\ d[1] \in Text!DIGITS \cup {Text!MINUS}
  <2>1. ASSUME NEW c \in {45} \cup 48..57
        PROVE  /\ c \notin {123, 125, 91, 93, 44, 58, 0} /\ c \notin {116, 102, 110}
               /\ c # Text!QUOTE /\ c # Text!SLASH /\ c \in Text!DIGITS \cup {Text!MINUS}
    BY DEF Text!QUOTE, Text!SLASH, Text!DIGITS, Text!MINUS
  <2>2. d[1] \in {45} \cup 48..57
    OBVIOUS
  <2> QED
    BY <2>1, <2>2, FirstBytes, ZenonT(60)
<1> QED
  BY <1>2, <1>3, <1>4, <1>5 DEF Text!readToken

-------------------------------------------------------------------------------
(* readInteger(): the digits are read as long as what they come to fits. *)

Readings == [integer : BOOLEAN, n : Int]
Turn(digits, max, r, i) ==
  IF \/ ~ r.integer \/ digits[i] \notin Text!DIGITS
     \/ Text!TooLarge(max, r.n, digits[i] - 48, i = Len(digits))
  THEN [r EXCEPT !.integer = FALSE] ELSE [r EXCEPT !.n = (@ * 10) + (digits[i] - 48)]

LEMMA ReadIs ==
  ASSUME NEW digits \in Seq(Int), NEW max \in Int
  PROVE  \E f \in [0..Len(digits) -> Readings] :
           /\ f[0] = [integer |-> TRUE, n |-> 0] /\ Text!readInteger(digits, max) = f[Len(digits)]
           /\ \A k \in 1..Len(digits) : f[k] = Turn(digits, max, f[k - 1], k)
<1> DEFINE n == Len(digits)
           base == [integer |-> TRUE, n |-> 0]
           step == [i \in 1..n |-> [r \in Readings |-> Turn(digits, max, r, i)]]
           Is(it) == it = [p \in SUBSET DOMAIN [i \in DOMAIN digits |-> i] |->
                             IF p = {} THEN base
                             ELSE Turn(digits, max, it[p \ {Max(p)}], [i \in DOMAIN digits |-> i][Max(p)])]
<1>1. n \in Nat /\ DOMAIN digits = 1..n /\ \A i \in 1..n : digits[i] \in Int
  OBVIOUS
<1>10. ASSUME NEW i \in 1..n, NEW r \in Readings
       PROVE  Turn(digits, max, r, i) \in Readings
    <3>1. [r EXCEPT !.integer = FALSE] \in Readings
      BY DEF Readings
    <3>2. ASSUME NEW m \in Int PROVE [r EXCEPT !.n = m] \in Readings
      BY DEF Readings
    <3>4. (r.n * 10) + (digits[i] - 48) \in Int
      BY <1>1 DEF Readings
    <3> QED
      BY <3>1, <3>2, <3>4 DEF Turn
<1>2. step \in Turns(n, Readings) /\ base \in Readings
  BY <1>10 DEF Turns, Readings
<1>3. PICK it : Iterates(it, n, Readings, base, step)
  <2> HIDE DEF step, base, n
  <2> QED
    BY <1>1, <1>2, FoldExists
<1>4. Is(it)
  <2>1. ASSUME NEW p \in SUBSET (1..n), p # {}
        PROVE  it[p] = Turn(digits, max, it[p \ {Max(p)}], Max(p)) /\ Max(p) \in 1..n
    <3>1. Max(p) \in 1..n /\ it[p \ {Max(p)}] \in Readings
      BY <2>1, <1>1, <1>3, LastNumber DEF Iterates
    <3> HIDE DEF n, base
    <3>2. it[p] = step[Max(p)][it[p \ {Max(p)}]]
      BY <2>1, <1>3 DEF Iterates
    <3> QED
      BY <3>1, <3>2
  <2>2. \A p \in SUBSET (1..n) : p = {} => it[p] = base
    BY <1>3 DEF Iterates
  <2> HIDE DEF base
  <2> QED
    BY <1>1, <1>3, <2>1, <2>2 DEF Iterates
<1>5. \E g : Is(g)
  BY <1>4
<1>6. PICK g : Is(g) /\ Text!readInteger(digits, max) = g[DOMAIN [i \in DOMAIN digits |-> i]]
  BY <1>5 DEF Text!readInteger, Text!FoldLeftDomain, Text!FoldLeft, Text!MapThenFoldSet, Text!Max, Max, Turn
<1>7. \E f : Folds(f, n, Readings, base, step) /\ f[n] = g[1..n]
  <2>1. \A p \in SUBSET (1..n) :
          g[p] = IF p = {} THEN base ELSE Turn(digits, max, g[p \ {Max(p)}], [i \in DOMAIN digits |-> i][Max(p)])
    BY <1>6, <1>1
  <2>2. ASSUME NEW p \in SUBSET (1..n), p # {}, g[p \ {Max(p)}] \in Readings
        PROVE  g[p] = step[Max(p)][g[p \ {Max(p)}]]
    <3>1. Max(p) \in 1..n /\ [i \in DOMAIN digits |-> i][Max(p)] = Max(p)
      BY <2>2, <1>1, LastNumber
    <3> QED
      BY <2>1, <2>2, <3>1
  <2>3. g[{}] = base
    BY <2>1
  <2>4. TakesTurns(g, n, Readings, base, step)
    BY <2>2, <2>3 DEF TakesTurns
  <2> HIDE DEF step, Is, n, base
  <2> QED
    BY <1>1, <1>2, <2>4, FoldIs
<1>8. PICK f : Folds(f, n, Readings, base, step) /\ f[n] = g[1..n]
  BY <1>7
<1>9. \A k \in 1..n : f[k] = Turn(digits, max, f[k - 1], k)
  <2>1. \A k \in 1..n : k - 1 \in 0..n
    BY <1>1
  <2>2. \A k \in 1..n : f[k - 1] \in Readings /\ f[k] = step[k][f[k - 1]]
    BY <1>8, <2>1 DEF Folds
  <2> QED
    BY <2>2
<1> QED
  BY <1>1, <1>6, <1>8, <1>9, ZenonT(60) DEF Folds

AllDigits(s) == s \in Seq(Int) /\ \A i \in 1..Len(s) : s[i] \in 48..57

(* One more digit, for the value and for readInteger().                    *)
LEMMA OneMoreDigit ==
  ASSUME NEW n \in Nat, NEW digit \in 0..9, NEW max \in Nat, max >= 10, NEW isLast \in BOOLEAN
  PROVE  /\ n > max => (n * 10) + digit > max
         /\ n <= max /\ Text!TooLarge(max, n, digit, isLast) =>
              \/ (n * 10) + digit > max
              \/ ~ isLast /\ (n * 10) + digit >= 10 * (max \div 10)
         /\ n >= 10 * (max \div 10) => (n * 10) + digit > max
         /\ ~ Text!TooLarge(max, n, digit, isLast) => (n * 10) + digit <= max
<1> DEFINE threshold == max \div 10
<1>1. threshold \in Nat /\ threshold >= 1 /\ max = 10 * threshold + (max % 10) /\ max % 10 \in 0..9
  <2>1. max \in Int /\ max = 10 * (max \div 10) + (max % 10) /\ max % 10 \in 0..9 /\ max \div 10 \in Int
    OBVIOUS
  <2> QED
    BY <2>1
<1> QED
  BY <1>1 DEF Text!TooLarge

(* readInteger() makes an integer of the digits exactly when it is not above the limit. *)
LEMMA ReadFits ==
  ASSUME NEW s, AllDigits(s), NEW max \in Nat, max >= 10
  PROVE  /\ Text!readInteger(s, max) \in Readings /\ Decimal(s) \in Nat
         /\ Text!readInteger(s, max).integer <=> Decimal(s) <= max
         /\ Text!readInteger(s, max).integer => Text!readInteger(s, max).n = Decimal(s)
<1> DEFINE n == Len(s)
<1>0. s \in Seq(Int) /\ n \in Nat /\ \A k \in 1..n : s[k] \in 48..57 /\ s[k] - 48 \in 0..9
  BY DEF AllDigits
<1>1. PICK f \in [0..n -> Int] :
             /\ f[0] = 0 /\ Decimal(s) = f[n]
             /\ \A k \in 1..n : f[k] = (f[k - 1] * 10) + (s[k] - 48)
  BY <1>0, DecimalIs
<1>2. PICK g \in [0..n -> Readings] :
             /\ g[0] = [integer |-> TRUE, n |-> 0] /\ Text!readInteger(s, max) = g[n]
             /\ \A k \in 1..n : g[k] = Turn(s, max, g[k - 1], k)
  <2>1. s \in Seq(Int) /\ max \in Int
    BY <1>0
  <2> QED
    BY <2>1, ReadIs
<1> DEFINE Agree(k) ==
             /\ f[k] \in Nat
             /\ g[k].integer => f[k] = g[k].n /\ f[k] <= max
             /\ ~ g[k].integer => f[k] > max \/ (k < n /\ f[k] >= 10 * (max \div 10))
           K == {k \in Nat : k <= n => Agree(k)}
<1>3. 0 \in K
  BY <1>1, <1>2
<1>4. ASSUME NEW k \in Nat, k \in K PROVE k + 1 \in K
  <2> SUFFICES ASSUME k + 1 <= n PROVE Agree(k + 1)
    OBVIOUS
  <2>1. k + 1 \in 1..n /\ (k + 1) - 1 = k /\ k \in 0..n /\ k <= n /\ k + 1 \in 0..n
    BY <1>0
  <2>2. Agree(k)
    BY <1>4, <2>1
  <2> DEFINE digit == s[k + 1] - 48
             isLast == (k + 1 = n)
  <2>3. f[k] \in Nat /\ f[k + 1] = (f[k] * 10) + digit /\ g[k + 1] = Turn(s, max, g[k], k + 1) /\ s[k + 1] \in 48..57
    BY <1>0, <1>1, <1>2, <2>1, <2>2
  <2>4. /\ f[k] > max => f[k + 1] > max
        /\ f[k] <= max /\ Text!TooLarge(max, f[k], digit, isLast) =>
              \/ f[k + 1] > max
              \/ ~ isLast /\ f[k + 1] >= 10 * (max \div 10)
        /\ f[k] >= 10 * (max \div 10) => f[k + 1] > max
        /\ ~ Text!TooLarge(max, f[k], digit, isLast) => f[k + 1] <= max
    <3>1. digit \in 0..9 /\ isLast \in BOOLEAN
      BY <1>0, <2>1
    <3> HIDE DEF digit, isLast
    <3> QED
      BY <2>3, <3>1, OneMoreDigit
  <2>5. f[k + 1] \in Nat
    <3>1. digit \in 0..9
      BY <1>0, <2>1
    <3> HIDE DEF digit
    <3> QED
      BY <2>3, <3>1
  <2>6. g[k] \in Readings /\ s[k + 1] \in Text!DIGITS
    BY <1>2, <2>1, <2>3 DEF Text!DIGITS
  <2>7. CASE g[k].integer /\ ~ Text!TooLarge(max, f[k], digit, isLast)
    <3>1. f[k] = g[k].n
      BY <2>2, <2>7
    <3>2. g[k + 1] = [g[k] EXCEPT !.n = (@ * 10) + (s[k + 1] - 48)]
      BY <2>3, <2>6, <2>7, <3>1 DEF Turn
    <3>3. g[k + 1].integer /\ g[k + 1].n = (f[k] * 10) + digit
      BY <2>6, <2>7, <3>1, <3>2 DEF Readings
    <3> QED
      BY <2>3, <2>4, <2>5, <2>7, <3>3
  <2>8. CASE ~ (g[k].integer /\ ~ Text!TooLarge(max, f[k], digit, isLast))
    <3>1. g[k].integer => f[k] = g[k].n /\ f[k] <= max
      BY <2>2
    <3>2. g[k + 1] = [g[k] EXCEPT !.integer = FALSE]
      BY <2>3, <2>6, <2>8, <3>1 DEF Turn
    <3>3. ~ g[k + 1].integer
      BY <2>6, <3>2 DEF Readings
    <3>4. f[k + 1] > max \/ (k + 1 < n /\ f[k + 1] >= 10 * (max \div 10))
      <4>1. CASE g[k].integer
        <5> HIDE DEF digit, Agree
        <5> QED
          BY <2>1, <2>4, <2>8, <3>1, <4>1
      <4>2. CASE ~ g[k].integer
        BY <2>2, <2>4, <4>2
      <4> QED
        BY <4>1, <4>2
    <3> QED
      BY <2>5, <3>3, <3>4
  <2> QED
    BY <2>7, <2>8
<1>5. n \in K
  <2> HIDE DEF K
  <2> QED
    BY <1>0, <1>3, <1>4, SetInduction
<1>6. Agree(n) /\ g[n] \in Readings
  BY <1>0, <1>2, <1>5
<1>7. f[n] <= max \/ f[n] > max
  BY <1>6
<1> QED
  BY <1>1, <1>2, <1>6, <1>7

-------------------------------------------------------------------------------
(* uintToString() *)

LEMMA DecimalAppend ==
  ASSUME NEW s \in Seq(Int), NEW c \in Int
  PROVE  Decimal(s \o <<c>>) = (Decimal(s) * 10) + (c - 48) /\ Decimal(s) \in Int
<1> DEFINE t == s \o <<c>>
           n == Len(s)
<1>1. /\ n \in Nat /\ t \in Seq(Int) /\ Len(t) = n + 1 /\ t[n + 1] = c
      /\ \A k \in 1..n : t[k] = s[k]
  OBVIOUS
<1>2. PICK f \in [0..n -> Int] :
             /\ f[0] = 0 /\ Decimal(s) = f[n]
             /\ \A k \in 1..n : f[k] = (f[k - 1] * 10) + (s[k] - 48)
  BY DecimalIs
<1> HIDE DEF t
<1>3. PICK g \in [0..n + 1 -> Int] :
             /\ g[0] = 0 /\ Decimal(t) = g[n + 1]
             /\ \A k \in 1..n + 1 : g[k] = (g[k - 1] * 10) + (t[k] - 48)
  <2>1. \E g \in [0..Len(t) -> Int] :
             /\ g[0] = 0 /\ Decimal(t) = g[Len(t)]
             /\ \A k \in 1..Len(t) : g[k] = (g[k - 1] * 10) + (t[k] - 48)
    BY <1>1, DecimalIs
  <2>2. Len(t) = n + 1
    BY <1>1
  <2> QED
    BY <2>1, <2>2
<1> DEFINE K == {k \in Nat : k <= n => g[k] = f[k]}
<1>4. 0 \in K
  BY <1>2, <1>3
<1>5. ASSUME NEW k \in Nat, k \in K PROVE k + 1 \in K
  <2> SUFFICES ASSUME k + 1 <= n PROVE g[k + 1] = f[k + 1]
    OBVIOUS
  <2>1. k + 1 \in 1..n /\ k + 1 \in 1..n + 1 /\ (k + 1) - 1 = k /\ k <= n
    BY <1>1
  <2> QED
    BY <1>1, <1>2, <1>3, <1>5, <2>1, ZenonT(60)
<1>6. g[n] = f[n] /\ f[n] \in Int
  <2> HIDE DEF K
  <2>1. n \in K
    BY <1>1, <1>4, <1>5, SetInduction
  <2> USE DEF K
  <2> QED
    BY <1>1, <1>2, <2>1
<1>7. n + 1 \in 1..n + 1 /\ (n + 1) - 1 = n
  BY <1>1
<1> QED
  BY <1>1, <1>2, <1>3, <1>6, <1>7 DEF t

LEMMA DecimalEmpty ==
  Decimal(<< >>) = 0
BY DecimalIs, << >> \in Seq(Int), Len(<< >>) = 0

IsTable(f, n) ==
  f = [i \in 0..n |-> (IF i < 10 THEN << >> ELSE f[i \div 10]) \o <<48 + (i % 10)>>]
Represents(s, n) == AllDigits(s) /\ s # << >> /\ Decimal(s) = n

LEMMA LastDigit ==
  ASSUME NEW i \in Nat
  PROVE  /\ i % 10 \in 0..9 /\ i \div 10 \in Nat /\ i = ((i \div 10) * 10) + (i % 10)
         /\ i < 10 => i % 10 = i
         /\ i >= 10 => i \div 10 < i
OBVIOUS

LEMMA TableExists ==
  ASSUME NEW n \in Nat
  PROVE  \E f : IsTable(f, n)
<1> DEFINE K == {k \in Nat : \E f : IsTable(f, k)}
<1>1. 0 \in K
  <2> DEFINE f == [i \in 0..0 |-> << >> \o <<48 + (i % 10)>>]
  <2>1. f = [i \in 0..0 |-> (IF i < 10 THEN << >> ELSE f[i \div 10]) \o <<48 + (i % 10)>>]
    OBVIOUS
  <2>2. IsTable(f, 0)
    <3> HIDE DEF f
    <3> QED
      BY <2>1 DEF IsTable
  <2> QED
    BY <2>2
<1>2. ASSUME NEW k \in Nat, k \in K PROVE k + 1 \in K
  <2>1. PICK f : IsTable(f, k)
    BY <1>2
  <2> DEFINE Entry(h, i) == (IF i < 10 THEN << >> ELSE h[i \div 10]) \o <<48 + (i % 10)>>
             g == [i \in 0..k + 1 |-> IF i = k + 1 THEN Entry(f, i) ELSE f[i]]
  <2>2. \A i \in 0..k + 1 : i >= 10 => i \div 10 \in 0..k /\ g[i \div 10] = f[i \div 10]
    BY LastDigit
  <2>3. \A i \in 0..k + 1 : g[i] = Entry(f, i)
    <3>1. ASSUME NEW i \in 0..k PROVE f[i] = Entry(f, i)
      BY <2>1 DEF IsTable
    <3>2. \A i \in 0..k + 1 : i = k + 1 \/ i \in 0..k
      OBVIOUS
    <3> HIDE DEF Entry
    <3>3. \A i \in 0..k + 1 : g[i] = IF i = k + 1 THEN Entry(f, i) ELSE f[i]
      OBVIOUS
    <3> HIDE DEF g
    <3> QED
      BY <3>1, <3>2, <3>3
  <2>4. \A i \in 0..k + 1 : Entry(f, i) = Entry(g, i)
    <3> HIDE DEF g
    <3>1. ASSUME NEW i \in 0..k + 1 PROVE i < 10 \/ i >= 10
      OBVIOUS
    <3>2. ASSUME NEW i \in 0..k + 1, i >= 10 PROVE Entry(f, i) = Entry(g, i)
      BY <2>2, <3>2
    <3>3. ASSUME NEW i \in 0..k + 1, i < 10 PROVE Entry(f, i) = Entry(g, i)
      BY <3>3
    <3> HIDE DEF Entry
    <3> QED
      BY <3>1, <3>2, <3>3
  <2>5. g = [i \in 0..k + 1 |-> Entry(g, i)]
    <3>1. g = [i \in 0..k + 1 |-> g[i]]
      OBVIOUS
    <3> HIDE DEF g, Entry
    <3> QED
      BY <2>3, <2>4, <3>1
  <2>6. IsTable(g, k + 1)
    <3> HIDE DEF g
    <3> QED
      BY <2>5 DEF IsTable
  <2> HIDE DEF g
  <2> QED
    BY <2>6
<1> HIDE DEF K
<1>3. n \in K
  BY <1>1, <1>2, SetInduction
<1> QED
  BY <1>3 DEF K

LEMMA TableIs ==
  ASSUME NEW n \in Nat, NEW f, IsTable(f, n)
  PROVE  \A i \in 0..n : Represents(f[i], i)
<1> DEFINE K == {k \in Nat : k <= n => \A i \in 0..k : Represents(f[i], i)}
<1>1. ASSUME NEW i \in 0..n, i >= 10 => Represents(f[i \div 10], i \div 10)
      PROVE  Represents(f[i], i)
  <2> DEFINE s == IF i < 10 THEN << >> ELSE f[i \div 10]
             c == 48 + (i % 10)
  <2>1. f[i] = s \o <<c>> /\ c \in 48..57 /\ c \in Int
    <3>1. f[i] = s \o <<c>>
      BY DEF IsTable
    <3>2. c \in 48..57
      <4>1. i % 10 \in 0..9
        BY LastDigit
      <4> QED
        BY <4>1
    <3> HIDE DEF s, c
    <3> QED
      BY <3>1, <3>2
  <2>2. AllDigits(s) /\ Decimal(s) = i \div 10
    <3>1. CASE i < 10
      <4>1. i \div 10 = 0 /\ AllDigits(<< >>)
        BY <3>1 DEF AllDigits
      <4> QED
        BY <3>1, <4>1, DecimalEmpty
    <3>2. CASE i >= 10
      BY <1>1, <3>2 DEF Represents
    <3> QED
      BY <3>1, <3>2
  <2>3. s \in Seq(Int)
    BY <2>2 DEF AllDigits
  <2>4. Decimal(f[i]) = i
    <3> HIDE DEF s
    <3>1. Decimal(s \o <<c>>) = (Decimal(s) * 10) + (c - 48)
      BY <2>1, <2>3, DecimalAppend
    <3>2. (Decimal(s) * 10) + (c - 48) = i
      BY <2>2, LastDigit
    <3> QED
      BY <2>1, <3>1, <3>2
  <2>5. AllDigits(f[i]) /\ f[i] # << >>
    <3>1. \A k \in 1..Len(s) : s[k] \in 48..57
      BY <2>2 DEF AllDigits
    <3> HIDE DEF s, c
    <3> QED
      BY <2>1, <2>3, <3>1, SMTT(40) DEF AllDigits
  <2> QED
    BY <2>4, <2>5 DEF Represents
<1>2. 0 \in K
  BY <1>1
<1>3. ASSUME NEW k \in Nat, k \in K PROVE k + 1 \in K
  <2> SUFFICES ASSUME k + 1 <= n, NEW i \in 0..k + 1 PROVE Represents(f[i], i)
    OBVIOUS
  <2>1. i \in 0..n /\ (i >= 10 => i \div 10 \in 0..k)
    BY LastDigit
  <2> QED
    BY <1>1, <1>3, <2>1
<1>4. n \in K
  <2> HIDE DEF K
  <2> QED
    BY <1>2, <1>3, SetInduction
<1> QED
  BY <1>4

LEMMA UintRepresents ==
  ASSUME NEW n \in Nat
  PROVE  Represents(Text!uintToString(n), n)
<1>1. \E f : IsTable(f, n)
  BY TableExists
<1>2. PICK f : IsTable(f, n) /\ Text!uintToString(n) = f[n]
  BY <1>1 DEF IsTable, Text!uintToString
<1> QED
  BY <1>2, TableIs

-------------------------------------------------------------------------------
(* Texts put together from parts; decodeNumber(). *)

LEMMA ChainExists ==
  ASSUME NEW n \in Nat, NEW M, NEW base \in M, NEW step \in Turns(n, M)
  PROVE  \E f : Folds(f, n, M, base, step)
<1>1. PICK it : Iterates(it, n, M, base, step)
  BY FoldExists
<1>2. TakesTurns(it, n, M, base, step)
  <2>1. {} \in SUBSET (1..n)
    OBVIOUS
  <2> QED
    BY <1>1, <2>1 DEF Iterates, TakesTurns
<1> QED
  BY <1>2, FoldIs

Sequences == Seq(Int)

(* Sequences of sequences, put together from the left. *)
Concatenates(h, parts, n) ==
  /\ h \in [0..n -> Sequences] /\ h[0] = << >>
  /\ \A k \in 1..n : h[k] = h[k - 1] \o parts[k]

LEMMA ConcatenatedExists ==
  ASSUME NEW n \in Nat, NEW parts \in [1..n -> Sequences]
  PROVE  \E h : Concatenates(h, parts, n)
<1> DEFINE step == [k \in 1..n |-> [s \in Sequences |-> s \o parts[k]]]
           base == << >>
<1>1. step \in Turns(n, Sequences) /\ base \in Sequences
  BY DEF Turns, Sequences
<1>2. PICK h : Folds(h, n, Sequences, base, step)
  <2> HIDE DEF step, base
  <2> QED
    BY <1>1, ChainExists
<1>3. ASSUME NEW k \in 1..n PROVE h[k] = h[k - 1] \o parts[k]
  <2>1. h[k - 1] \in Sequences
    BY <1>2 DEF Folds
  <2> QED
    BY <1>2, <2>1 DEF Folds
<1> QED
  BY <1>2, <1>3 DEF Folds, Concatenates

LEMMA FlattenIs ==
  ASSUME NEW n \in Nat, NEW parts \in [1..n -> Sequences]
  PROVE  \E h : Concatenates(h, parts, n) /\ Text!FlattenSeq(parts) = h[n]
<1>1. Len(parts) = n
  OBVIOUS
<1>2. PICK h : Concatenates(h, parts, n)
  BY ConcatenatedExists
<1>3. CASE n = 0
  <2>1. parts = << >> /\ h[0] = << >>
    BY <1>2, <1>3 DEF Concatenates
  <2>2. Text!FlattenSeq(parts) = parts
    BY <1>1, <1>3 DEF Text!FlattenSeq
  <2> QED
    BY <1>2, <1>3, <2>1, <2>2
<1>4. CASE n # 0
  <2> DEFINE Is(f) == f = [i \in 1..Len(parts) |-> IF i = 1 THEN parts[i] ELSE f[i - 1] \o parts[i]]
             g == [i \in 1..n |-> h[i]]
  <2>1. \A i \in 1..n : h[i] \in Sequences /\ h[i] = IF i = 1 THEN parts[i] ELSE h[i - 1] \o parts[i]
    <3>1. ASSUME NEW i \in 1..n PROVE h[i] \in Sequences /\ h[i] = h[i - 1] \o parts[i]
      BY <1>2 DEF Concatenates
    <3>2. \A s \in Sequences : << >> \o s = s
      BY DEF Sequences
    <3>3. \A i \in 1..n : i = 1 => i - 1 = 0
      OBVIOUS
    <3>4. \A i \in 1..n : i = 1 => h[i] = parts[i]
      BY <1>2, <3>1, <3>2, <3>3 DEF Concatenates
    <3> QED
      BY <3>1, <3>4
  <2>2. Is(g)
    <3>1. \A i \in 1..n : i # 1 => i - 1 \in 1..n
      OBVIOUS
    <3> QED
      BY <1>1, <2>1, <3>1
  <2>3. \E f : Is(f)
    BY <2>2
  <2>4. PICK f : Is(f) /\ Text!FlattenSeq(parts) = f[Len(parts)]
    BY <2>3, <1>1, <1>4 DEF Text!FlattenSeq
  <2> DEFINE K == {k \in Nat : k <= n => k = 0 \/ f[k] = h[k]}
  <2>5. 0 \in K
    OBVIOUS
  <2>6. ASSUME NEW k \in Nat, k \in K PROVE k + 1 \in K
    <3> SUFFICES ASSUME k + 1 <= n PROVE f[k + 1] = h[k + 1]
      OBVIOUS
    <3>1. k + 1 \in 1..n /\ (k + 1) - 1 = k /\ (k + 1 # 1 => f[k] = h[k])
      BY <2>6
    <3>2. f[k + 1] = IF k + 1 = 1 THEN parts[k + 1] ELSE f[k] \o parts[k + 1]
      BY <3>1, <2>4, <1>1
    <3> QED
      BY <2>1, <3>1, <3>2
  <2>7. n \in K
    <3> HIDE DEF K
    <3> QED
      BY <2>5, <2>6, SetInduction
  <2> QED
    BY <1>1, <1>2, <1>4, <2>4, <2>7
<1> QED
  BY <1>3, <1>4

Number(m) == IF m \in Text!minLargestInt..Text!maxLargestUInt
             THEN Text!Number(IF m <= maxInt THEN "int" ELSE "uint", m)
             ELSE [type |-> IF (IF m < 0 THEN - m ELSE m) <= maxDouble THEN "real" ELSE "error"]
DigitsOf(t) == IF t[1] = 45 THEN Tail(t) ELSE t
Signed(t) == IF t[1] = 45 THEN - Decimal(DigitsOf(t)) ELSE Decimal(DigitsOf(t))
IsNumber(t) == t \in Seq(Int) /\ t # << >> /\ AllDigits(DigitsOf(t)) /\ DigitsOf(t) # << >>

LEMMA NumberIs ==
  ASSUME NEW t, IsNumber(t)
  PROVE  /\ t[1] = 45 \/ t[1] \in 48..57
         /\ \A i \in 2..Len(t) : t[i] \in 48..57
         /\ \E i \in 1..Len(t) : t[i] \in 48..57
<1>1. t \in Seq(Int) /\ Len(t) \in Nat /\ Len(t) >= 1
  BY DEF IsNumber
<1>2. CASE t[1] = 45
  <2>1. AllDigits(Tail(t)) /\ Tail(t) # << >>
    BY <1>2 DEF IsNumber, DigitsOf
  <2>2. \A i \in 2..Len(t) : i - 1 \in 1..Len(Tail(t)) /\ Tail(t)[i - 1] = t[i]
    BY <1>1
  <2>3. Len(t) >= 2
    BY <1>1, <2>1
  <2>4. \A i \in 2..Len(t) : t[i] \in 48..57
    BY <2>1, <2>2 DEF AllDigits
  <2>5. 2 \in 1..Len(t) /\ 2 \in 2..Len(t)
    BY <1>1, <2>3
  <2> QED
    BY <1>2, <2>4, <2>5
<1>3. CASE t[1] # 45
  BY <1>1, <1>3 DEF IsNumber, DigitsOf, AllDigits
<1> QED
  BY <1>2, <1>3

LEMMA DigitsAreWhole ==
  ASSUME NEW s, AllDigits(s), s # << >>
  PROVE  /\ Text!FirstFrom(s, 1, LAMBDA i : s[i] = 46) = Len(s) + 1
         /\ SubSeq(s, 1, Len(s)) \o SubSeq(s, Len(s) + 2, Len(s)) = s
         /\ [i \in 1..Len(s) |-> IF i <= Len(s) THEN s[i] ELSE 48] = s
<1>1. s \in Seq(Int) /\ Len(s) \in Nat /\ \A i \in 1..Len(s) : s[i] \in 48..57
  BY DEF AllDigits
<1>2. \A i \in 1..Len(s) : ~ (s[i] = 46)
  BY <1>1
<1>3. Text!FirstFrom(s, 1, LAMBDA i : s[i] = 46) = Len(s) + 1
  <2>1. {j \in 1..Len(s) : s[j] = 46} = {}
    BY <1>2
  <2>2. IsFirst(Len(s) + 1, {}, Len(s))
    BY <1>1 DEF IsFirst
  <2>3. Text!Min({j \in 1..Len(s) : s[j] = 46} \cup {Len(s) + 1}) = Len(s) + 1
    BY <2>1, <2>2, FirstIs
  <2> QED
    BY <2>3 DEF Text!FirstFrom, Text!end
<1>4. SubSeq(s, 1, Len(s)) = s /\ SubSeq(s, Len(s) + 2, Len(s)) = << >> /\ s \o << >> = s
  BY <1>1
<1>5. [i \in 1..Len(s) |-> IF i <= Len(s) THEN s[i] ELSE 48] = s
  BY <1>1
<1> QED
  BY <1>3, <1>4, <1>5

LEMMA DigitsAreDouble ==
  ASSUME NEW t, IsNumber(t)
  PROVE  Text!decodeDouble(t) = [type |-> IF Decimal(DigitsOf(t)) <= maxDouble THEN "real" ELSE "error"]
<1>1. Text!Exponents(t) = {}
  <2>1. ASSUME NEW c, c = 45 \/ c \in 48..57 PROVE c \notin {69, 101}
    BY <2>1
  <2>2. \A i \in 1..Len(t) : i = 1 \/ i \in 2..Len(t)
    BY DEF IsNumber
  <2> QED
    BY <2>1, <2>2, NumberIs DEF Text!Exponents
<1>2. Text!Mantissa(t) = t /\ Text!Exponent(t) = 0
  BY <1>1 DEF Text!Mantissa, Text!Exponent
<1>3. Text!IsDouble(t)
  BY <1>1, <1>2, NumberIs DEF Text!IsDouble, Text!DIGITS
<1>4. Text!Unsigned(t) = DigitsOf(t)
  <2>1. t[1] # 43
    BY NumberIs
  <2> QED
    BY <2>1 DEF Text!Unsigned, DigitsOf, Text!PLUS, Text!MINUS
<1> DEFINE s == DigitsOf(t)
<1>5. AllDigits(s) /\ s # << >> /\ Len(s) \in Nat
  BY DEF IsNumber, AllDigits
<1>6. Text!WholePart(t) = Decimal(s)
  <2> HIDE DEF s
  <2> DEFINE point == Text!FirstFrom(s, 1, LAMBDA i : s[i] = 46)
             digits == SubSeq(s, 1, point - 1) \o SubSeq(s, point + 1, Len(s))
             shifted == [i \in 1..point - 1 + 0 |-> IF i <= Len(digits) THEN digits[i] ELSE 48]
  <2>1. Text!WholePart(t) = Text!Positional(shifted, 10, 48)
    BY <1>2, <1>4 DEF s, Text!WholePart, Text!POINT
  <2>2. point = Len(s) + 1
    BY <1>5, DigitsAreWhole
  <2> HIDE DEF point
  <2>3. point - 1 = Len(s) /\ point + 1 = Len(s) + 2 /\ point - 1 + 0 = Len(s)
    BY <1>5, <2>2
  <2>4. digits = s
    BY <1>5, <2>3, DigitsAreWhole
  <2> HIDE DEF digits
  <2>5. shifted = s
    BY <1>5, <2>3, <2>4, DigitsAreWhole
  <2> HIDE DEF shifted
  <2> QED
    BY <2>1, <2>5 DEF Decimal
<1> QED
  BY <1>3, <1>6 DEF Text!decodeDouble, Text!Error

LEMMA NegationOf ==
  ASSUME NEW n \in Nat
  PROVE  /\ (IF n < 0 THEN - n ELSE n) = n
         /\ (IF - n < 0 THEN - (- n) ELSE - n) = n
OBVIOUS

LEMMA DecodesNumber ==
  ASSUME Text!TextAssumption, NEW t, IsNumber(t)
  PROVE  /\ Text!decodeNumber(t) = Number(Signed(t)) /\ Signed(t) \in Int
         /\ Decimal(DigitsOf(t)) \in Nat
<1>1. maxLargestInt \in Nat /\ maxLargestInt >= 10 /\ maxInt \in Nat
  BY DEF Text!TextAssumption
<1>2. ASSUME NEW max \in Nat, max >= 10
      PROVE  /\ Text!readInteger(DigitsOf(t), max) \in Readings /\ Decimal(DigitsOf(t)) \in Nat
             /\ Text!readInteger(DigitsOf(t), max).integer <=> Decimal(DigitsOf(t)) <= max
             /\ Text!readInteger(DigitsOf(t), max).integer => Text!readInteger(DigitsOf(t), max).n = Decimal(DigitsOf(t))
  <2>1. AllDigits(DigitsOf(t))
    BY DEF IsNumber
  <2> HIDE DEF DigitsOf
  <2> QED
    BY <1>2, <2>1, ReadFits
<1>3. maxLargestInt + 1 \in Nat /\ maxLargestInt + 1 >= 10 /\ 2 * maxLargestInt + 1 \in Nat /\ 2 * maxLargestInt + 1 >= 10
  BY <1>1
<1> DEFINE D == DigitsOf(t)
           R(max) == Text!readInteger(D, max)
<1>4. CASE t[1] = 45
  <2> DEFINE r == R(maxLargestInt + 1)
  <2>1. r.integer <=> Decimal(D) <= maxLargestInt + 1
    BY <1>2, <1>3
  <2>2. Decimal(D) \in Nat /\ (r.integer => r.n = Decimal(D))
    BY <1>2, <1>3
  <2>3. Text!decodeNumber(t) = IF ~ r.integer THEN Text!decodeDouble(t) ELSE Text!Number("int", - r.n)
    BY <1>4 DEF Text!decodeNumber, DigitsOf, Text!MINUS
  <2>4. Signed(t) = - Decimal(D)
    BY <1>4 DEF Signed
  <2>5. CASE r.integer
    <3>1. Signed(t) \in Text!minLargestInt..Text!maxLargestUInt /\ Signed(t) <= maxInt /\ Signed(t) \in Int
      BY <1>1, <2>1, <2>2, <2>4, <2>5 DEF Text!minLargestInt, Text!maxLargestUInt
    <3> QED
      BY <2>2, <2>3, <2>4, <2>5, <3>1 DEF Number
  <2>6. CASE ~ r.integer
    <3>1. Signed(t) \notin Text!minLargestInt..Text!maxLargestUInt /\ Signed(t) \in Int
      BY <1>1, <2>1, <2>2, <2>4, <2>6 DEF Text!minLargestInt, Text!maxLargestUInt
    <3> QED
      BY <2>2, <2>3, <2>4, <2>6, <3>1, DigitsAreDouble, NegationOf DEF Number
  <2> QED
    BY <2>2, <2>5, <2>6
<1>5. CASE t[1] # 45
  <2> DEFINE r == R(2 * maxLargestInt + 1)
  <2>1. r.integer <=> Decimal(D) <= 2 * maxLargestInt + 1
    BY <1>2, <1>3
  <2>2. Decimal(D) \in Nat /\ (r.integer => r.n = Decimal(D))
    BY <1>2, <1>3
  <2>3. Text!decodeNumber(t) = IF ~ r.integer THEN Text!decodeDouble(t)
                               ELSE Text!Number(IF r.n <= maxInt THEN "int" ELSE "uint", r.n)
    BY <1>5 DEF Text!decodeNumber, DigitsOf, Text!MINUS, Text!maxLargestUInt
  <2>4. Signed(t) = Decimal(D)
    BY <1>5 DEF Signed
  <2>5. CASE r.integer
    <3>1. Signed(t) \in Text!minLargestInt..Text!maxLargestUInt
      BY <1>1, <2>1, <2>2, <2>4, <2>5 DEF Text!minLargestInt, Text!maxLargestUInt
    <3> QED
      BY <2>2, <2>3, <2>4, <2>5, <3>1 DEF Number
  <2>6. CASE ~ r.integer
    <3>1. Signed(t) \notin Text!minLargestInt..Text!maxLargestUInt
      BY <1>1, <2>1, <2>2, <2>4, <2>6 DEF Text!minLargestInt, Text!maxLargestUInt
    <3> QED
      BY <2>2, <2>3, <2>4, <2>6, <3>1, DigitsAreDouble, NegationOf DEF Number
  <2> QED
    BY <2>2, <2>5, <2>6
<1> QED
  BY <1>4, <1>5

-------------------------------------------------------------------------------
(* Escapes, as they are written. *)

LEMMA ValueIsNumber ==
  ASSUME Text!TextAssumption, NEW n \in Text!minLargestInt..Text!maxLargestUInt
  PROVE  IsNumber(Text!valueToString(n)) /\ Signed(Text!valueToString(n)) = n
<1>1. maxLargestInt \in Nat /\ Text!minLargestInt = - maxLargestInt - 1 /\ n \in Int
  BY DEF Text!TextAssumption, Text!minLargestInt, Text!maxLargestUInt
<1>2. ASSUME NEW s, NEW k \in Nat, Represents(s, k)
      PROVE  /\ IsNumber(s) /\ Signed(s) = k
             /\ IsNumber(<<45>> \o s) /\ Signed(<<45>> \o s) = - k
  <2>1. s \in Seq(Int) /\ s # << >> /\ s[1] \in 48..57 /\ s[1] # 45
    <3>1. s \in Seq(Int) /\ s # << >> /\ \A i \in 1..Len(s) : s[i] \in 48..57
      BY <1>2 DEF Represents, AllDigits
    <3>2. 1 \in 1..Len(s)
      BY <3>1
    <3>3. s[1] \in 48..57
      BY <3>1, <3>2
    <3> QED
      BY <3>1, <3>3
  <2>2. DigitsOf(s) = s
    BY <2>1 DEF DigitsOf
  <2>3. (<<45>> \o s)[1] = 45 /\ Tail(<<45>> \o s) = s /\ <<45>> \o s \in Seq(Int) /\ <<45>> \o s # << >>
    BY <2>1
  <2>4. DigitsOf(<<45>> \o s) = s
    BY <2>3 DEF DigitsOf
  <2> QED
    BY <1>2, <2>1, <2>2, <2>3, <2>4 DEF IsNumber, Signed, Represents
<1>3. CASE n >= 0
  <2>1. Text!valueToString(n) = Text!uintToString(n) /\ n \in Nat
    BY <1>1, <1>3 DEF Text!valueToString
  <2> QED
    BY <1>2, <2>1, UintRepresents
<1>4. CASE n < 0
  <2>1. Text!valueToString(n) = <<45>> \o Text!uintToString(- n) /\ - n \in Nat
    BY <1>1, <1>4 DEF Text!valueToString, Text!MINUS
  <2>2. Represents(Text!uintToString(- n), - n)
    BY <2>1, UintRepresents
  <2>3. - (- n) = n
    BY <1>1
  <2> QED
    BY <1>2, <2>1, <2>2, <2>3
<1> QED
  BY <1>1, <1>3, <1>4

LEMMA HexDigitIs ==
  ASSUME NEW n \in 0..15
  PROVE  /\ Text!HexDigit(n) \in 48..57 \cup 65..70
         /\ Text!HexValue(Text!HexDigit(n)) = n
<1>1. CASE n < 10
  BY <1>1 DEF Text!HexDigit, Text!HexValue, Text!DIGITS
<1>2. CASE n >= 10
  BY <1>2 DEF Text!HexDigit, Text!HexValue, Text!DIGITS
<1> QED
  BY <1>1, <1>2

LEMMA Concatenated ==
  ASSUME NEW s \in Seq(Int), NEW t \in Seq(Int)
  PROVE  /\ s \o t \in Seq(Int) /\ Len(s \o t) = Len(s) + Len(t)
         /\ Len(s) \in Nat /\ Len(t) \in Nat
         /\ \A i \in 1..Len(s) : (s \o t)[i] = s[i]
         /\ \A k \in 1..Len(t) : (s \o t)[Len(s) + k] = t[k]
OBVIOUS

LEMMA SequenceOf ==
  ASSUME NEW n \in Nat, NEW S, NEW f \in [1..n -> S]
  PROVE  f \in Seq(S) /\ Len(f) = n
OBVIOUS

LEMMA SmallNibble ==
  ASSUME NEW c \in 0..15
  PROVE  c % 16 = c
OBVIOUS

LEMMA Sixteen ==
  ASSUME NEW q \in Int
  PROVE  q \div 16 \in Int /\ q % 16 \in 0..15 /\ q = ((q \div 16) * 16) + (q % 16)
OBVIOUS

(* The parts of a byte pair that a hexadecimal digit stands for.           *)
Nibbles(n) == <<(n \div 4096) % 16, (n \div 256) % 16, (n \div 16) % 16, n % 16>>

LEMMA NibblesAre ==
  ASSUME NEW n \in Int
  PROVE  Nibbles(n) \in [1..4 -> 0..15]
<1>1. n \div 4096 \in Int /\ n \div 256 \in Int /\ n \div 16 \in Int
  BY SMTT(40)
<1>2. ASSUME NEW a \in Int, NEW b \in Int, NEW c \in Int
      PROVE  <<a % 16, b % 16, c % 16, n % 16>> \in [1..4 -> 0..15]
  <2>1. a % 16 \in 0..15 /\ b % 16 \in 0..15 /\ c % 16 \in 0..15 /\ n % 16 \in 0..15
    BY Sixteen
  <2>2. ASSUME NEW u \in 0..15, NEW x \in 0..15, NEW y \in 0..15, NEW z \in 0..15
        PROVE  <<u, x, y, z>> \in [1..4 -> 0..15]
    OBVIOUS
  <2> QED
    BY <2>1, <2>2
<1> QED
  BY <1>1, <1>2 DEF Nibbles

CodeUnit == {n \in Int : n >= 0 /\ n <= 65535}
Sum16(s) == (((((s[1] * 16) + s[2]) * 16) + s[3]) * 16) + s[4]

LEMMA CodeUnitTyped ==
  ASSUME NEW n \in CodeUnit
  PROVE  n \in Int /\ n >= 0 /\ n <= 65535
BY DEF CodeUnit

LEMMA NibblesSum ==
  ASSUME NEW n \in CodeUnit
  PROVE  Sum16(Nibbles(n)) = n
<1> DEFINE a == n \div 16
           b == n \div 256
           c == n \div 4096
<1>1. n \in Int /\ a \in Int /\ b \in Int /\ c \in Int
  BY CodeUnitTyped, SMT
<1>2. a \div 16 = b
  BY CodeUnitTyped, SMT
<1>3. b \div 16 = c
  BY CodeUnitTyped, SMT
<1>4. c % 16 = c
  <2>1. c \in 0..15
    BY CodeUnitTyped, SMT
  <2> HIDE DEF c
  <2> QED
    BY <2>1, SmallNibble
<1>5. Nibbles(n)[1] = c % 16 /\ Nibbles(n)[2] = b % 16 /\ Nibbles(n)[3] = a % 16 /\ Nibbles(n)[4] = n % 16
  BY SMT DEF Nibbles
<1>6. n \div 16 = a
  OBVIOUS
<1> HIDE DEF a, b, c
<1>7. b = (c * 16) + (b % 16)
  BY <1>1, <1>3, Sixteen
<1>8. a = (b * 16) + (a % 16)
  BY <1>1, <1>2, Sixteen
<1>9. n = (a * 16) + (n % 16)
  BY <1>1, <1>6, Sixteen
<1> QED
  BY <1>1, <1>4, <1>5, <1>7, <1>8, <1>9, SMT DEF Sum16

(* The digits of an escape. *)
HexOf(n) == [k \in 1..4 |-> Text!HexDigit(Nibbles(n)[k])]

LEMMA HexOfIs ==
  ASSUME NEW n \in Int
  PROVE  HexOf(n) \in [1..4 -> 48..57 \cup 65..70] /\ \A k \in 1..4 : Text!HexValue(HexOf(n)[k]) = Nibbles(n)[k]
<1>1. ASSUME NEW k \in 1..4 PROVE Nibbles(n)[k] \in 0..15
  BY NibblesAre
<1> QED
  BY <1>1, HexDigitIs DEF HexOf

LEMMA UnicodeEscapeIs ==
  ASSUME NEW n \in Int
  PROVE  /\ Text!UnicodeEscape(n) \in Seq(Int) /\ Len(Text!UnicodeEscape(n)) = 6
         /\ Text!UnicodeEscape(n)[1] = 92 /\ Text!UnicodeEscape(n)[2] = 117
         /\ \A k \in 1..4 : Text!UnicodeEscape(n)[2 + k] = HexOf(n)[k]
<1>1. Text!UnicodeEscape(n) = <<92, 117>> \o HexOf(n)
  <2>1. ASSUME NEW k \in 1..4
        PROVE  (n \div <<4096, 256, 16, 1>>[k]) % 16 = Nibbles(n)[k]
    <3>1. k = 1 \/ k = 2 \/ k = 3 \/ k = 4
      BY SMT
    <3>2. n \div 1 = n
      BY SMT
    <3> QED
      BY <3>1, <3>2, SMT DEF Nibbles
  <2> QED
    BY <2>1 DEF Text!UnicodeEscape, HexOf, Text!BACKSLASH
<1>2. ASSUME NEW h \in Seq(Int), Len(h) = 4
      PROVE  /\ <<92, 117>> \o h \in Seq(Int) /\ Len(<<92, 117>> \o h) = 6
             /\ (<<92, 117>> \o h)[1] = 92 /\ (<<92, 117>> \o h)[2] = 117
             /\ \A k \in 1..4 : (<<92, 117>> \o h)[2 + k] = h[k]
  <2>1. ASSUME NEW s \in Seq(Int), Len(s) = 2
        PROVE  /\ s \o h \in Seq(Int) /\ Len(s \o h) = 6
               /\ (s \o h)[1] = s[1] /\ (s \o h)[2] = s[2]
               /\ \A k \in 1..4 : (s \o h)[2 + k] = h[k]
    <3>1. /\ s \o h \in Seq(Int) /\ Len(s \o h) = Len(s) + Len(h)
          /\ \A i \in 1..Len(s) : (s \o h)[i] = s[i]
          /\ \A k \in 1..Len(h) : (s \o h)[Len(s) + k] = h[k]
      BY <1>2, Concatenated
    <3>2. 1 \in 1..Len(s) /\ 2 \in 1..Len(s)
      BY <2>1
    <3>3. Len(s \o h) = 6
      BY <1>2, <2>1, <3>1
    <3>4. (s \o h)[1] = s[1] /\ (s \o h)[2] = s[2]
      BY <3>1, <3>2
    <3>5. \A k \in 1..4 : (s \o h)[2 + k] = h[k]
      <4> DEFINE u == s \o h
      <4>1. \A k \in 1..Len(h) : u[Len(s) + k] = h[k]
        BY <3>1
      <4> HIDE DEF u
      <4>2. \A k \in 1..4 : u[2 + k] = h[k]
        BY <4>1, <1>2, <2>1
      <4> QED
        BY <4>2 DEF u
    <3> QED
      BY <3>1, <3>3, <3>4, <3>5
  <2>2. <<92, 117>> \in Seq(Int) /\ Len(<<92, 117>>) = 2 /\ <<92, 117>>[1] = 92 /\ <<92, 117>>[2] = 117
    OBVIOUS
  <2> QED
    BY <2>1, <2>2, ZenonT(60)
<1>3. HexOf(n) \in Seq(Int) /\ Len(HexOf(n)) = 4
  <2>1. HexOf(n) \in [1..4 -> Int]
    BY HexOfIs
  <2>2. ASSUME NEW m \in Nat, m = 4 PROVE HexOf(n) \in Seq(Int) /\ Len(HexOf(n)) = m
    BY <2>1, <2>2, SequenceOf
  <2> QED
    BY <2>2
<1> QED
  BY <1>1, <1>2, <1>3

LEMMA EscapedIs ==
  ASSUME NEW c \in Text!Byte
  PROVE  /\ c \in {34, 92} => Text!escaped(c) = <<92, c>>
         /\ c \in DOMAIN Text!Letter => Text!escaped(c) = <<92, Text!Letter[c]>>
         /\ c \notin {34, 92} \cup DOMAIN Text!Letter /\ c \in 0..31 => Text!escaped(c) = Text!UnicodeEscape(c)
         /\ c \notin {34, 92} \cup DOMAIN Text!Letter /\ c \notin 0..31 => Text!escaped(c) = <<c>>
         /\ DOMAIN Text!Letter = {8, 9, 10, 12, 13}
         /\ \A x \in DOMAIN Text!Letter : Text!Letter[x] \in {98, 102, 110, 114, 116}
         /\ Text!escaped(c) \in Seq(Int)
<1>1. DOMAIN Text!Letter = {8, 9, 10, 12, 13}
  BY DEF Text!Letter, Text!LF, Text!CR, Text!TAB
<1>2. \A x \in DOMAIN Text!Letter : Text!Letter[x] \in {98, 102, 110, 114, 116}
  BY DEF Text!Letter, Text!LF, Text!CR, Text!TAB
<1>3. c \in {34, 92} => Text!escaped(c) = <<92, c>>
  BY DEF Text!escaped, Text!QUOTE, Text!BACKSLASH
<1>4. c \in DOMAIN Text!Letter => Text!escaped(c) = <<92, Text!Letter[c]>>
  BY <1>1 DEF Text!escaped, Text!QUOTE, Text!BACKSLASH
<1>5. c \in Int /\ (c \in 0..31 <=> Text!isControlCharacter(c) \/ c = Text!NUL)
  BY DEF Text!Byte, Text!isControlCharacter, Text!NUL
<1>6. c \notin {34, 92} \cup DOMAIN Text!Letter /\ c \in 0..31 => Text!escaped(c) = Text!UnicodeEscape(c)
  BY <1>5 DEF Text!escaped, Text!QUOTE, Text!BACKSLASH
<1>7. c \notin {34, 92} \cup DOMAIN Text!Letter /\ c \notin 0..31 => Text!escaped(c) = <<c>>
  BY <1>5 DEF Text!escaped, Text!QUOTE, Text!BACKSLASH
<1>8. Text!escaped(c) \in Seq(Int)
  <2>1. Text!UnicodeEscape(c) \in Seq(Int)
    BY <1>5, UnicodeEscapeIs
  <2>2. c \in DOMAIN Text!Letter => Text!Letter[c] \in Int
    BY <1>2
  <2>3. \A x \in Int : <<92, x>> \in Seq(Int) /\ <<x>> \in Seq(Int)
    OBVIOUS
  <2> QED
    BY <1>3, <1>4, <1>5, <1>6, <1>7, <2>1, <2>2, <2>3
<1> QED
  BY <1>1, <1>2, <1>3, <1>4, <1>6, <1>7, <1>8

-------------------------------------------------------------------------------
(* The invariant: what is decoded is what the document says, and the document *)
(* is what was written, as long as something was.                             *)

LEMMA BytesAreIntegers ==
  ASSUME NEW s \in Seq(Text!Byte)
  PROVE  s \in Seq(Int)
<1>1. Len(s) \in Nat /\ s \in [1..Len(s) -> Text!Byte]
  OBVIOUS
<1>2. Text!Byte \subseteq Int
  BY DEF Text!Byte
<1>3. s \in [1..Len(s) -> Int]
  BY <1>1, <1>2
<1> QED
  BY <1>1, <1>3, SequenceOf

Parts(s) == [i \in 1..Len(s) |-> Text!escaped(s[i])]

LEMMA Unescaped ==
  ASSUME NEW s \in Seq(Text!Byte), ~ Text!needsEscapes(s), NEW h, Concatenates(h, Parts(s), Len(s))
  PROVE  h[Len(s)] = s
<1> DEFINE n == Len(s)
           K == {k \in Nat : k <= n => h[k] = SubSeq(s, 1, k)}
<1>1. n \in Nat /\ s \in Seq(Int) /\ \A k \in 1..n : s[k] \in Text!Byte
  BY BytesAreIntegers
<1>2. ASSUME NEW k \in 1..n PROVE Parts(s)[k] = <<s[k]>>
  <2>1. s[k] \notin {34, 92} \cup DOMAIN Text!Letter /\ s[k] \notin 0..31
    <3>1. s[k] \notin {34, 92, 0} \cup DOMAIN Text!Letter /\ s[k] \notin 1..31
      BY DEF Text!needsEscapes, Text!isControlCharacter, Text!QUOTE, Text!BACKSLASH, Text!NUL
    <3>2. \A c \in Int : c \in 0..31 => c = 0 \/ c \in 1..31
      OBVIOUS
    <3> QED
      BY <1>1, <3>1, <3>2 DEF Text!Byte
  <2> QED
    BY <1>1, <2>1, EscapedIs, ZenonT(60) DEF Parts
<1>3. 0 \in K
  BY <1>1 DEF Concatenates
<1>4. ASSUME NEW k \in Nat, k \in K PROVE k + 1 \in K
  <2> SUFFICES ASSUME k + 1 <= n PROVE h[k + 1] = SubSeq(s, 1, k + 1)
    OBVIOUS
  <2>1. k + 1 \in 1..n /\ (k + 1) - 1 = k /\ k <= n
    BY <1>1
  <2>2. h[k + 1] = h[k] \o Parts(s)[k + 1]
    BY <2>1 DEF Concatenates
  <2>3. SubSeq(s, 1, k) \o <<s[k + 1]>> = SubSeq(s, 1, k + 1)
    BY <1>1, <2>1
  <2> QED
    BY <1>2, <1>4, <2>1, <2>2, <2>3
<1>5. n \in K
  <2> HIDE DEF K
  <2> QED
    BY <1>1, <1>3, <1>4, SetInduction
<1> QED
  BY <1>1, <1>5

LEMMA QuotedIs ==
  ASSUME NEW s \in Seq(Text!Byte)
  PROVE  /\ Len(s) \in Nat /\ Parts(s) \in [1..Len(s) -> Sequences]
         /\ \A k \in 1..Len(s) : Parts(s)[k] = Text!escaped(s[k]) /\ s[k] \in Text!Byte
         /\ \E h : /\ Concatenates(h, Parts(s), Len(s))
                   /\ Text!valueToQuotedStringN(s) = Text!Quoted(h[Len(s)])
<1>1. Len(s) \in Nat /\ \A k \in 1..Len(s) : s[k] \in Text!Byte
  OBVIOUS
<1>2. \A k \in 1..Len(s) : Text!escaped(s[k]) \in Sequences
  BY <1>1, EscapedIs DEF Sequences
<1>3. Parts(s) \in [1..Len(s) -> Sequences] /\ \A k \in 1..Len(s) : Parts(s)[k] = Text!escaped(s[k])
  BY <1>2 DEF Parts
<1>4. PICK h : Concatenates(h, Parts(s), Len(s)) /\ Text!FlattenSeq(Parts(s)) = h[Len(s)]
  BY <1>1, <1>3, FlattenIs
<1>5. Text!valueToQuotedStringN(s) = Text!Quoted(IF Text!needsEscapes(s) THEN Text!FlattenSeq(Parts(s)) ELSE s)
  BY DEF Text!valueToQuotedStringN, Parts
<1>6. Text!valueToQuotedStringN(s) = Text!Quoted(h[Len(s)])
  BY <1>4, <1>5, Unescaped
<1> QED
  BY <1>1, <1>3, <1>4, <1>6

LEMMA QuotedSequence ==
  ASSUME NEW s \in Seq(Int)
  PROVE  /\ Text!Quoted(s) \in Seq(Int) /\ Len(Text!Quoted(s)) = Len(s) + 2 /\ Len(s) \in Nat
         /\ Text!Quoted(s)[1] = 34 /\ Text!Quoted(s)[Len(s) + 2] = 34
         /\ \A i \in 1..Len(s) : Text!Quoted(s)[i + 1] = s[i]
BY DEF Text!Quoted, Text!QUOTE

LEMMA QuotedTyped ==
  ASSUME NEW s \in Seq(Text!Byte)
  PROVE  Text!valueToQuotedStringN(s) \in Seq(Int) /\ Text!valueToQuotedStringN(s) # << >>
<1>1. PICK h : Concatenates(h, Parts(s), Len(s)) /\ Text!valueToQuotedStringN(s) = Text!Quoted(h[Len(s)])
  BY QuotedIs
<1>2. h[Len(s)] \in Seq(Int)
  BY <1>1, QuotedIs DEF Concatenates, Sequences
<1> QED
  BY <1>1, <1>2, QuotedSequence

LEMMA FirstExists ==
  ASSUME NEW n \in Nat, NEW Stops \in SUBSET (1..n)
  PROVE  IsFirst(Text!Min(Stops \cup {n + 1}), Stops, n)
<1>1. Stops \cup {n + 1} \in SUBSET Nat /\ Stops \cup {n + 1} # {}
  OBVIOUS
<1>2. PICK k \in Stops \cup {n + 1} : \A m \in Stops \cup {n + 1} : k <= m
  BY <1>1, LeastNumber
<1>3. IsFirst(k, Stops, n)
  BY <1>2 DEF IsFirst
<1> QED
  BY <1>3, FirstIs

LEMMA CStringTyped ==
  ASSUME NEW s \in Seq(Text!Byte)
  PROVE  Text!CString(s) \in Seq(Text!Byte)
<1> DEFINE Stops == {j \in 1..Len(s) : s[j] = Text!NUL}
           k == Text!Min(Stops \cup {Len(s) + 1})
<1>1. Len(s) \in Nat /\ Stops \in SUBSET (1..Len(s))
  OBVIOUS
<1>2. IsFirst(k, Stops, Len(s))
  BY <1>1, FirstExists
<1>3. k - 1 \in 0..Len(s)
  BY <1>1, <1>2 DEF IsFirst
<1>4. Text!CString(s) = SubSeq(s, 1, k - 1)
  BY DEF Text!CString, Text!FirstFrom, Text!end
<1> HIDE DEF k
<1> QED
  BY <1>1, <1>3, <1>4

DecodeOf(d) ==
  LET token == Text!readToken(d, 1)
      text == SubSeq(d, token.start_, token.end_ - 1)
  IN CASE token.type_ = "Number" -> Text!decodeNumber(text)
       [] token.type_ = "String" -> Text!decodeString(text)
       [] token.type_ \notin {"Number", "String"} -> Text!Error

(* What was written, as long as it was.                                    *)
IsWritten(u, d) ==
  \/ u = Text!Nothing
  \/ \E n \in Text!minLargestInt..Text!maxLargestUInt :
       u = [type |-> "integer", value |-> n] /\ d = Text!valueToString(n)
  \/ \E s \in Seq(Text!Byte) :
       \/ u = [type |-> "string", value |-> s] /\ d = Text!valueToQuotedStringN(s)
       \/ u = [type |-> "name", value |-> s] /\ d = Text!valueToQuotedString(s)

TextInv ==
  /\ document_ \in Seq(Int)
  /\ decoded # Text!Nothing => decoded = DecodeOf(document_)
  /\ document_ = << >> => written = Text!Nothing /\ decoded = Text!Nothing
  /\ IsWritten(written, document_)

LEMMA TextInvHolds ==
  ASSUME Text!TextAssumption
  PROVE  Text!Spec => []TextInv
<1>1. Text!Init => TextInv
  BY DEF Text!Init, TextInv, IsWritten
<1>2. TextInv /\ [Text!Next]_(Text!vars) => TextInv'
  <2> SUFFICES ASSUME TextInv, [Text!Next]_(Text!vars) PROVE TextInv'
    OBVIOUS
  <2>1. CASE Text!Write
    <3>1. PICK u \in Values : written' = u
            /\ document_' = CASE u.type = "integer" -> Text!valueToString(u.value)
                         [] u.type = "string" -> Text!valueToQuotedStringN(u.value)
                         [] u.type = "name" -> Text!valueToQuotedString(u.value)
      BY <2>1 DEF Text!Write
    <3>2. decoded' = Text!Nothing
      BY <2>1 DEF TextInv, Text!Write
    <3>3. document_' \in Seq(Int) /\ document_' # << >> /\ IsWritten(written', document_')
      <4>1. CASE u \in [type : {"integer"}, value : Text!minLargestInt..Text!maxLargestUInt]
        <5>1. u.value \in Text!minLargestInt..Text!maxLargestUInt /\ u = [type |-> "integer", value |-> u.value]
          BY <4>1
        <5>2. document_' = Text!valueToString(u.value)
          BY <3>1, <5>1
        <5>3. document_' \in Seq(Int) /\ document_' # << >>
          BY <5>1, <5>2, ValueIsNumber DEF IsNumber
        <5> QED
          BY <3>1, <5>1, <5>2, <5>3 DEF IsWritten
      <4>2. CASE u \in [type : {"string", "name"}, value : Seq(Text!Byte)]
        <5>1. u.value \in Seq(Text!Byte) /\ u.type \in {"string", "name"} /\ u = [type |-> u.type, value |-> u.value]
          BY <4>2
        <5>2. CASE u.type = "string"
          <6>1. document_' = Text!valueToQuotedStringN(u.value)
            BY <3>1, <5>2
          <6>2. document_' \in Seq(Int) /\ document_' # << >>
            BY <5>1, <6>1, QuotedTyped
          <6> QED
            BY <3>1, <5>1, <5>2, <6>1, <6>2 DEF IsWritten
        <5>3. CASE u.type = "name"
          <6>1. document_' = Text!valueToQuotedString(u.value)
            BY <3>1, <5>3
          <6>2. document_' \in Seq(Int) /\ document_' # << >>
            BY <5>1, <6>1, QuotedTyped, CStringTyped DEF Text!valueToQuotedString
          <6> QED
            BY <3>1, <5>1, <5>3, <6>1, <6>2 DEF IsWritten
        <5> QED
          BY <5>1, <5>2, <5>3
      <4> QED
        BY <4>1, <4>2 DEF Text!TextAssumption
    <3> QED
      BY <3>2, <3>3 DEF TextInv
  <2>2. CASE Text!Receive
    <3>1. \A t \in Seq(Text!Byte) : t \in Seq(Int)
      BY BytesAreIntegers
    <3>2. document_' \in Seq(Int)
      BY <2>2, <3>1 DEF Text!Receive, Text!TextAssumption
    <3> QED
      BY <2>2, <3>2 DEF TextInv, Text!Receive, IsWritten
  <2>3. CASE Text!Decode
    <3>1. decoded' = DecodeOf(document_) /\ UNCHANGED <<written, document_>> /\ document_ # << >>
      BY <2>3 DEF Text!Decode, DecodeOf
    <3> QED
      BY <3>1 DEF TextInv
  <2>4. CASE UNCHANGED Text!vars
    BY <2>4 DEF TextInv, Text!vars
  <2> QED
    BY <2>1, <2>2, <2>3, <2>4 DEF Text!Next
<1> QED
  BY <1>1, <1>2, PTL DEF Text!Spec

(* Digits, with a sign or without, are decoded to an integer if it has 64  *)
(* bits; otherwise to a double if one can hold it, and to an error if none *)
(* can.                                                                    *)
THEOREM DigitsAlwaysExactOrReal ==
  ASSUME Text!TextAssumption
  PROVE  Text!Spec => []ExactOrReal
<1>1. TextInv => Text!ExactOrReal
  <2> SUFFICES ASSUME TextInv, Text!Done, Text!IsInteger
               PROVE  IF Text!Integer \in Text!minLargestInt..Text!maxLargestUInt
                      THEN decoded.type \in {"int", "uint"} /\ decoded.value = Text!Integer
                      ELSE decoded.type = IF Text!Magnitude <= maxDouble THEN "real" ELSE "error"
    BY DEF Text!ExactOrReal
  <2>1. document_ \in Seq(Int) /\ decoded = DecodeOf(document_) /\ document_ # << >>
    BY DEF TextInv, Text!Done
  <2>2. /\ Text!Digits = DigitsOf(document_) /\ Text!Magnitude = Decimal(DigitsOf(document_))
        /\ Text!Integer = Signed(document_)
    <3>1. Text!Digits = DigitsOf(document_)
      BY DEF Text!Digits, DigitsOf, Text!MINUS
    <3>2. Text!Magnitude = Decimal(DigitsOf(document_))
      BY <3>1 DEF Text!Magnitude, Decimal
    <3> HIDE DEF DigitsOf, Decimal
    <3>3. Text!Integer = Signed(document_)
      BY <3>2 DEF Text!Integer, Signed, Text!MINUS
    <3> QED
      BY <3>1, <3>2, <3>3
  <2>3. IsNumber(document_)
    <3>1. DigitsOf(document_) \in Seq(Int)
      BY <2>1 DEF DigitsOf
    <3>2. \A i \in 1..Len(DigitsOf(document_)) : DigitsOf(document_)[i] \in 48..57
      BY <2>2, <3>1 DEF Text!IsInteger, Text!DIGITS
    <3> QED
      BY <2>1, <2>2, <3>1, <3>2 DEF IsNumber, AllDigits, Text!IsInteger
  <2>4. Text!readToken(document_, 1) = Text!Token("Number", 1, Len(document_) + 1)
    BY <2>1, <2>3, NumberIs, NumberToken
  <2>5. SubSeq(document_, 1, (Len(document_) + 1) - 1) = document_
    BY <2>1
  <2>6. DecodeOf(document_) = Text!decodeNumber(document_)
    <3> DEFINE token == Text!readToken(document_, 1)
    <3>1. token.type_ = "Number" /\ token.start_ = 1 /\ token.end_ = Len(document_) + 1
      BY <2>4 DEF Text!Token
    <3> HIDE DEF token
    <3>2. SubSeq(document_, token.start_, token.end_ - 1) = document_
      BY <2>5, <3>1
    <3>3. DecodeOf(document_) = Text!decodeNumber(SubSeq(document_, token.start_, token.end_ - 1))
      <4>1. DecodeOf(document_) =
              CASE token.type_ = "Number" -> Text!decodeNumber(SubSeq(document_, token.start_, token.end_ - 1))
                [] token.type_ = "String" -> Text!decodeString(SubSeq(document_, token.start_, token.end_ - 1))
                [] token.type_ \notin {"Number", "String"} -> Text!Error
        BY DEF DecodeOf, token
      <4> QED
        BY <3>1, <4>1
    <3> QED
      BY <3>2, <3>3
  <2>7. decoded = Number(Text!Integer) /\ Text!Integer \in Int
    BY <2>1, <2>2, <2>3, <2>6, DecodesNumber
  <2>8. Text!Magnitude = IF Text!Integer < 0 THEN - Text!Integer ELSE Text!Integer
    <3>1. Text!Magnitude \in Nat
      BY <2>2, <2>3, DecodesNumber
    <3> QED
      BY <2>2, <3>1, NegationOf DEF Signed
  <2> QED
    BY <2>7, <2>8 DEF Number, Text!Number
<1>2. Text!ExactOrReal => ExactOrReal
  BY DEF ExactOrReal
<1> QED
  BY <1>1, <1>2, TextInvHolds, PTL

-------------------------------------------------------------------------------
(* Functions whose values depend on those further right: readString() and   *)
(* decodeString().                                                          *)

(* A table whose entries depend on later ones.                             *)
Steps(low, high, M) == [low..high -> [M -> M]]
Leads(next, stops, low, high) == \A j \in low..high : j \notin stops => next[j] \in j + 1..high
Descends(f, low, high, M, stops, base, next, step) ==
  /\ f \in [low..high -> M]
  /\ \A j \in low..high : f[j] = IF j \in stops THEN base[j] ELSE step[j][f[next[j]]]
Entries(low, high, M) == [low..high -> M]

LEMMA Behind ==
  ASSUME NEW l \in Int, NEW high \in Int
  PROVE  \A j \in l..high : j = l \/ (j \in l + 1..high /\ l < high)
<1>1. ASSUME NEW j \in l..high, j # l PROVE j \in l + 1..high /\ l < high
  <2>1. j \in Int /\ l <= j /\ j <= high
    OBVIOUS
  <2> QED
    BY <1>1, <2>1
<1> QED
  BY <1>1

LEMMA DescentExists ==
  ASSUME NEW low \in Int, NEW high \in Int, low <= high, NEW M, NEW stops, NEW next,
         NEW base \in Entries(low, high, M), NEW step \in Steps(low, high, M), Leads(next, stops, low, high)
  PROVE  \E f : Descends(f, low, high, M, stops, base, next, step)
<1> DEFINE Is(f, l) == /\ f \in [l..high -> M]
                       /\ \A j \in l..high : f[j] = IF j \in stops THEN base[j] ELSE step[j][f[next[j]]]
           K == {m \in Nat : low <= high - m => \E f : Is(f, high - m)}
<1>1. /\ \A j \in low..high : base[j] \in M /\ \A r \in M : step[j][r] \in M
      /\ \A j \in low..high : j \notin stops => next[j] \in j + 1..high
  BY DEF Entries, Steps, Leads
<1>2. ASSUME NEW l \in low..high, NEW f, l < high => Is(f, l + 1)
      PROVE  \E g : Is(g, l)
  <2> DEFINE entry == IF l \in stops THEN base[l] ELSE step[l][f[next[l]]]
             g == [j \in l..high |-> IF j = l THEN entry ELSE f[j]]
  <2>1. l \notin stops => l < high /\ next[l] \in l + 1..high
    BY <1>1
  <2>2. l \notin stops => f[next[l]] \in M
    BY <1>2, <2>1
  <2>3. entry \in M
    BY <1>1, <2>2
  <2>4. \A j \in l..high : j = l \/ (j \in l + 1..high /\ l < high)
    <3>1. l \in Int
      OBVIOUS
    <3> HIDE DEF Is
    <3> QED
      BY <3>1, Behind
  <2>5. \A j \in l + 1..high : l < high /\ f[j] \in M /\ j \in l..high /\ j # l
    BY <1>2
  <2> HIDE DEF entry
  <2>6. g \in [l..high -> M] /\ g[l] = entry /\ \A j \in l + 1..high : g[j] = f[j]
    BY <2>3, <2>4, <2>5
  <2> HIDE DEF g
  <2>7. \A j \in l..high : j \notin stops => next[j] \in l + 1..high
    <3>1. \A j \in l..high : j \in low..high
      OBVIOUS
    <3>2. \A j \in l..high : j \notin stops => next[j] \in j + 1..high
      BY <1>1, <3>1
    <3> QED
      BY <3>2
  <2>8. \A j \in l..high : j \notin stops => g[next[j]] = f[next[j]]
    BY <2>6, <2>7
  <2>9. ASSUME NEW j \in l..high
        PROVE  g[j] = IF j \in stops THEN base[j] ELSE step[j][g[next[j]]]
    <3>1. CASE j = l
      BY <2>6, <2>8, <3>1 DEF entry
    <3>2. CASE j \in l + 1..high /\ l < high
      BY <1>2, <2>6, <2>8, <3>2
    <3> QED
      BY <2>4, <3>1, <3>2
  <2>10. Is(g, l)
    BY <2>6, <2>9
  <2> HIDE DEF Is
  <2> QED
    BY <2>10
<1> HIDE DEF Is
<1>3. 0 \in K
  <2>1. high \in low..high /\ high - 0 = high
    OBVIOUS
  <2>2. \E f : Is(f, high)
    BY <1>2, <2>1
  <2> QED
    BY <2>1, <2>2
<1>4. ASSUME NEW m \in Nat, m \in K PROVE m + 1 \in K
  <2> SUFFICES ASSUME low <= high - (m + 1) PROVE \E f : Is(f, high - (m + 1))
    OBVIOUS
  <2> DEFINE l == high - (m + 1)
  <2>1. l \in low..high /\ l + 1 = high - m /\ low <= high - m
    OBVIOUS
  <2>2. PICK f : Is(f, high - m)
    BY <1>4, <2>1
  <2>3. Is(f, l + 1)
    BY <2>1, <2>2
  <2> HIDE DEF l
  <2>4. \E g : Is(g, l)
    BY <1>2, <2>1, <2>3
  <2> QED
    BY <2>4 DEF l
<1>5. high - low \in K
  <2>1. high - low \in Nat
    OBVIOUS
  <2> HIDE DEF K
  <2> QED
    BY <1>3, <1>4, <2>1, SetInduction
<1>6. \E f : Is(f, low)
  <2>1. high - (high - low) = low
    OBVIOUS
  <2> QED
    BY <1>5, <2>1
<1> QED
  BY <1>6 DEF Is, Descends

(* readString(), place by place.                                           *)
Finds == [ok : BOOLEAN, current : Int]
ReadsFrom(f, d) ==
  \A j \in 2..Len(d) :
    f[j] = IF d[j] = 92 THEN f[IF j < Len(d) THEN j + 2 ELSE j + 1]
           ELSE IF d[j] = 34 THEN Text!Found(TRUE, j + 1)
           ELSE f[j + 1]

LEMMA BehindBackslash ==
  ASSUME NEW d \in Seq(Int), NEW j \in 1..Len(d)
  PROVE  Text!After(d, j + 1) = IF j < Len(d) THEN j + 2 ELSE j + 1
<1>1. CASE j < Len(d)
  <2>1. j + 1 \in 1..Len(d) /\ (j + 1) + 1 = j + 2
    BY <1>1
  <2> QED
    BY <1>1, <2>1, AfterIs
<1>2. CASE ~ (j < Len(d))
  <2>1. j = Len(d) /\ {(j + 1) + 1, Text!end(d)} \in SUBSET Int /\ j + 1 \in {(j + 1) + 1, Text!end(d)}
          /\ \A m \in {(j + 1) + 1, Text!end(d)} : j + 1 <= m
    BY <1>2 DEF Text!end
  <2> QED
    BY <1>2, <2>1, MinIs DEF Text!After
<1> QED
  BY <1>1, <1>2

LEMMA ReadStringIs ==
  ASSUME NEW d \in Seq(Int), Len(d) >= 1
  PROVE  \E f : ReadsFrom(f, d) /\ Text!readString(d, 2) = f[2]
<1> DEFINE low == 2
           high == Len(d) + 1
           stops == {j \in low..high : j = high \/ d[j] = 34}
           next == [j \in low..high |-> IF d[j] = 92 THEN Text!After(d, j + 1) ELSE j + 1]
           base == [j \in low..high |-> IF j = high THEN Text!Found(FALSE, j) ELSE Text!Found(TRUE, j + 1)]
           step == [j \in low..high |-> [r \in Finds |-> r]]
           Is(f) == f = [j \in low..Text!end(d) |->
                           IF j = Text!end(d) THEN Text!Found(FALSE, j)
                           ELSE IF d[j] = Text!BACKSLASH THEN f[Text!After(d, j + 1)]
                           ELSE IF d[j] = Text!QUOTE THEN Text!Found(TRUE, j + 1)
                           ELSE f[j + 1]]
<1>1. low \in Int /\ high \in Int /\ low <= high /\ Len(d) \in Nat /\ \A j \in 2..Len(d) : d[j] \in Int
  OBVIOUS
<1>2. \A j \in low..high : j = high \/ j \in 2..Len(d)
  BY <1>1
<1>3. Leads(next, stops, low, high)
  <2>1. ASSUME NEW j \in low..high, j \notin stops PROVE next[j] \in j + 1..high
    <3>1. j \in 2..Len(d) /\ j \in 1..Len(d)
      BY <1>1, <1>2, <2>1
    <3>2. Text!After(d, j + 1) = IF j < Len(d) THEN j + 2 ELSE j + 1
      BY <3>1, BehindBackslash
    <3> QED
      BY <1>1, <3>1, <3>2
  <2> HIDE DEF low, high, stops, next
  <2> QED
    BY <2>1 DEF Leads
<1>4. base \in Entries(low, high, Finds) /\ step \in Steps(low, high, Finds)
  <2>1. \A j \in Int : Text!Found(FALSE, j) \in Finds /\ Text!Found(TRUE, j + 1) \in Finds
    BY DEF Finds, Text!Found
  <2>2. ASSUME NEW j \in low..high PROVE base[j] \in Finds
    <3>1. j \in Int
      BY <1>1
    <3>2. base[j] = IF j = high THEN Text!Found(FALSE, j) ELSE Text!Found(TRUE, j + 1)
      OBVIOUS
    <3> HIDE DEF base, low, high
    <3> QED
      BY <2>1, <3>1, <3>2
  <2>3. base \in Entries(low, high, Finds)
    BY <2>2 DEF Entries
  <2>4. step \in Steps(low, high, Finds)
    BY DEF Steps
  <2> QED
    BY <2>3, <2>4
<1>5. PICK f : Descends(f, low, high, Finds, stops, base, next, step)
  <2> HIDE DEF low, high, stops, base, next, step
  <2> QED
    BY <1>1, <1>3, <1>4, DescentExists
<1>6. f \in [low..high -> Finds]
  BY <1>5 DEF Descends
<1>7. Text!end(d) = high /\ Text!BACKSLASH = 92 /\ Text!QUOTE = 34
  BY DEF Text!end, Text!BACKSLASH, Text!QUOTE
<1>8. ASSUME NEW j \in low..high
      PROVE  f[j] = IF j = high THEN Text!Found(FALSE, j)
                    ELSE IF d[j] = 92 THEN f[Text!After(d, j + 1)]
                    ELSE IF d[j] = 34 THEN Text!Found(TRUE, j + 1)
                    ELSE f[j + 1]
  <2>1. f[j] = IF j \in stops THEN base[j] ELSE step[j][f[next[j]]]
    BY <1>5 DEF Descends
  <2>2. CASE j \in stops
    <3>1. f[j] = base[j] /\ (j = high \/ d[j] = 34)
      BY <2>1, <2>2
    <3>2. base[j] = IF j = high THEN Text!Found(FALSE, j) ELSE Text!Found(TRUE, j + 1)
      OBVIOUS
    <3> HIDE DEF base, low, high, stops
    <3>3. CASE j = high
      BY <3>1, <3>2, <3>3
    <3>4. CASE j # high
      <4>1. d[j] = 34 /\ d[j] # 92
        BY <3>1, <3>4
      <4> QED
        BY <3>1, <3>2, <3>4, <4>1
    <3> QED
      BY <3>3, <3>4
  <2>3. CASE j \notin stops
    <3>1. next[j] \in low..high
      <4>1. next[j] \in j + 1..high
        BY <1>3, <2>3 DEF Leads
      <4> HIDE DEF next, high
      <4> QED
        BY <1>1, <4>1
    <3>2. f[next[j]] \in Finds
      BY <1>6, <3>1
    <3>3. f[j] = f[next[j]]
      BY <2>1, <2>3, <3>2
    <3>4. next[j] = IF d[j] = 92 THEN Text!After(d, j + 1) ELSE j + 1
      OBVIOUS
    <3>5. j # high /\ d[j] # 34
      BY <2>3
    <3> QED
      BY <3>3, <3>4, <3>5
  <2> QED
    BY <2>2, <2>3
<1>9. Is(f)
  <2> HIDE DEF low, high
  <2> QED
    BY <1>6, <1>7, <1>8, ZenonT(60)
<1>10. \E g : Is(g)
  BY <1>9
<1>11. PICK g : Is(g) /\ Text!readString(d, 2) = g[2]
  BY <1>10 DEF Text!readString
<1>12. ASSUME NEW j \in 2..Len(d)
       PROVE  g[j] = IF d[j] = 92 THEN g[IF j < Len(d) THEN j + 2 ELSE j + 1]
                     ELSE IF d[j] = 34 THEN Text!Found(TRUE, j + 1)
                     ELSE g[j + 1]
  <2>1. j \in low..high /\ j # high /\ j \in 1..Len(d)
    BY <1>1
  <2>2. g[j] = IF d[j] = 92 THEN g[Text!After(d, j + 1)]
               ELSE IF d[j] = 34 THEN Text!Found(TRUE, j + 1)
               ELSE g[j + 1]
    BY <1>7, <1>11, <2>1
  <2> QED
    BY <2>1, <2>2, BehindBackslash
<1> QED
  BY <1>11, <1>12 DEF ReadsFrom

LEMMA HexValueTyped ==
  \A c : Text!HexValue(c) \in Int
<1> SUFFICES ASSUME NEW c PROVE Text!HexValue(c) \in Int
  OBVIOUS
<1>1. c \in 48..57 \/ c \in 97..102 \/ c \in 65..70 => c \in Int
  OBVIOUS
<1> QED
  BY <1>1 DEF Text!HexValue, Text!DIGITS

LEMMA SequenceTyped ==
  ASSUME NEW d \in Seq(Int), NEW i \in Int, NEW stop \in Int
  PROVE  /\ Text!decodeUnicodeEscapeSequence(d, i, stop).unicode \in Int
         /\ Text!decodeUnicodeEscapeSequence(d, i, stop).current = i + 4
         /\ Text!decodeUnicodeEscapeSequence(d, i, stop).ok => stop - i >= 4
<1> DEFINE digits == [k \in 1..4 |-> Text!HexValue(d[i + k - 1])]
<1>1. digits \in [1..4 -> Int]
  BY HexValueTyped
<1> HIDE DEF digits
<1>2. digits \in Seq(Int) /\ Len(digits) \in Nat
  <2>1. ASSUME NEW m \in Nat, m = 4 PROVE digits \in Seq(Int)
    BY <1>1, <2>1, SequenceOf
  <2>2. digits \in Seq(Int)
    BY <2>1
  <2> QED
    BY <2>2
<1>3. ASSUME NEW base \in Int, base = 16, NEW zero \in Int, zero = 0
      PROVE  Text!Positional(digits, base, zero) \in Int
  <2>1. PICK f \in [0..Len(digits) -> Int] : Text!Positional(digits, base, zero) = f[Len(digits)]
    BY <1>2, PositionalIs
  <2>2. Len(digits) \in 0..Len(digits)
    BY <1>2
  <2> QED
    BY <2>1, <2>2
<1>4. Text!Positional(digits, 16, 0) \in Int
  BY <1>3
<1> DEFINE ok == stop - i >= 4 /\ \A k \in 1..4 : digits[k] >= 0
           read == Text!decodeUnicodeEscapeSequence(d, i, stop)
<1>5. read = [ok |-> ok, unicode |-> IF ok THEN Text!Positional(digits, 16, 0) ELSE 0, current |-> i + 4]
  BY DEF Text!decodeUnicodeEscapeSequence, digits
<1>6. ok => stop - i >= 4
  OBVIOUS
<1> HIDE DEF ok, read
<1>7. read.ok = ok /\ read.current = i + 4 /\ read.unicode = IF ok THEN Text!Positional(digits, 16, 0) ELSE 0
  BY <1>5, Zenon
<1>8. read.unicode \in Int
  BY <1>4, <1>7
<1> QED
  BY <1>6, <1>7, <1>8 DEF read

LEMMA HalvesTyped ==
  ASSUME NEW a \in Int, NEW b \in Int
  PROVE  65536 + ((a % 1024) * 1024) + (b % 1024) \in Int
<1>1. a % 1024 \in Int /\ b % 1024 \in Int
  OBVIOUS
<1>2. ASSUME NEW x \in Int, NEW y \in Int PROVE 65536 + (x * 1024) + y \in Int
  OBVIOUS
<1> QED
  BY <1>1, <1>2, SMT

LEMMA CodePointTyped ==
  ASSUME NEW d \in Seq(Int), NEW i \in Int, NEW stop \in Int
  PROVE  /\ Text!decodeUnicodeCodePoint(d, i, stop).unicode \in Int
         /\ Text!decodeUnicodeCodePoint(d, i, stop).ok =>
              Text!decodeUnicodeCodePoint(d, i, stop).current \in i + 1..stop
<1> DEFINE first == Text!decodeUnicodeEscapeSequence(d, i, stop)
           second == Text!decodeUnicodeEscapeSequence(d, i + 6, stop)
           paired == stop - i >= 10 /\ d[i + 4] = Text!BACKSLASH /\ d[i + 5] = 117
           point == Text!decodeUnicodeCodePoint(d, i, stop)
           unicode == 65536 + ((first.unicode % 1024) * 1024) + (second.unicode % 1024)
<1>1. /\ first.unicode \in Int /\ first.current = i + 4 /\ (first.ok => stop - i >= 4)
      /\ second.unicode \in Int /\ second.current = (i + 6) + 4 /\ (second.ok => stop - (i + 6) >= 4)
  <2>1. i + 6 \in Int
    OBVIOUS
  <2> QED
    BY <2>1, SequenceTyped
<1>2. first = [ok |-> first.ok, unicode |-> first.unicode, current |-> first.current]
      /\ second = [ok |-> second.ok, unicode |-> second.unicode, current |-> second.current]
  BY DEF Text!decodeUnicodeEscapeSequence
<1>3. \/ point = first
      \/ point = [first EXCEPT !.ok = FALSE]
      \/ point = [second EXCEPT !.unicode = unicode]
  BY <1>2 DEF Text!decodeUnicodeCodePoint
<1>4. unicode \in Int
  BY <1>1, HalvesTyped
<1> HIDE DEF first, second, paired, unicode
<1>5. CASE point = first
  <2> HIDE DEF point
  <2>1. point.unicode \in Int /\ (point.ok => point.current \in i + 1..stop)
    BY <1>1, <1>5
  <2> QED
    BY <2>1 DEF point
<1>6. CASE point = [first EXCEPT !.ok = FALSE]
  <2> HIDE DEF point
  <2>1. point.ok = FALSE /\ point.unicode = first.unicode
    BY <1>2, <1>6
  <2>2. point.unicode \in Int /\ ~ point.ok
    BY <1>1, <2>1
  <2> QED
    BY <2>2 DEF point
<1>7. CASE point = [second EXCEPT !.unicode = unicode]
  <2> HIDE DEF point
  <2>1. point.unicode = unicode /\ point.ok = second.ok /\ point.current = second.current
    BY <1>2, <1>7
  <2>2. point.unicode \in Int /\ (point.ok => point.current \in i + 1..stop)
    BY <1>1, <1>4, <2>1
  <2> QED
    BY <2>2 DEF point
<1> QED
  BY <1>3, <1>5, <1>6, <1>7

LEMMA SixBits ==
  ASSUME NEW b \in Int
  PROVE  128 + (b % 64) \in 128..191
<1>1. b % 64 \in 0..63
  OBVIOUS
<1> QED
  BY <1>1

Six(b) == 128 + (b % 64)
LEMMA EncodedIs ==
  ASSUME NEW cp \in Int
  PROVE  /\ cp <= 127 => Text!codePointToUTF8(cp) = <<cp>>
         /\ (cp > 127 /\ cp <= 2047) => Text!codePointToUTF8(cp) = <<192 + cp \div 64, Six(cp)>>
         /\ (cp > 2047 /\ cp <= 65535) => Text!codePointToUTF8(cp) = <<224 + cp \div 4096, Six(cp \div 64), Six(cp)>>
         /\ (cp > 65535 /\ cp <= 1114111) =>
              Text!codePointToUTF8(cp) = <<240 + cp \div 262144, Six(cp \div 4096), Six(cp \div 64), Six(cp)>>
         /\ cp > 1114111 => Text!codePointToUTF8(cp) = << >>
<1>1. CASE cp <= 127
  BY <1>1 DEF Text!codePointToUTF8
<1>2. CASE (cp > 127 /\ cp <= 2047)
  BY <1>2 DEF Text!codePointToUTF8, Six
<1>3. CASE (cp > 2047 /\ cp <= 65535)
  BY <1>3 DEF Text!codePointToUTF8, Six
<1>4. CASE (cp > 65535 /\ cp <= 1114111)
  BY <1>4 DEF Text!codePointToUTF8, Six
<1>5. CASE cp > 1114111
  BY <1>5 DEF Text!codePointToUTF8
<1> QED
  BY <1>1, <1>2, <1>3, <1>4, <1>5

LEMMA EncodedTyped ==
  ASSUME NEW cp \in Int
  PROVE  Text!codePointToUTF8(cp) \in Seq(Int)
<1>1. cp \div 64 \in Int /\ cp \div 4096 \in Int /\ cp \div 262144 \in Int
  OBVIOUS
<1>2. \A b \in Int : Six(b) \in Int
  BY SixBits DEF Six
<1>3. cp <= 127 \/ (cp > 127 /\ cp <= 2047) \/ (cp > 2047 /\ cp <= 65535) \/ (cp > 65535 /\ cp <= 1114111)
        \/ cp > 1114111
  OBVIOUS
<1>4. /\ << >> \in Seq(Int) /\ <<cp>> \in Seq(Int)
      /\ \A a, b \in Int : <<a, b>> \in Seq(Int)
      /\ \A a, b, c \in Int : <<a, b, c>> \in Seq(Int)
      /\ \A a, b, c, e \in Int : <<a, b, c, e>> \in Seq(Int)
  OBVIOUS
<1>5. 192 + cp \div 64 \in Int /\ 224 + cp \div 4096 \in Int /\ 240 + cp \div 262144 \in Int
  BY <1>1
<1>6. Six(cp) \in Int /\ Six(cp \div 64) \in Int /\ Six(cp \div 4096) \in Int
  BY <1>1, <1>2
<1>7. CASE cp <= 127
  <2>1. Text!codePointToUTF8(cp) = <<cp>>
    BY <1>7 DEF Text!codePointToUTF8, Six
  <2> QED
    BY <1>4, <2>1
<1>8. CASE cp > 127 /\ cp <= 2047
  <2>1. Text!codePointToUTF8(cp) = <<192 + cp \div 64, Six(cp)>>
    BY <1>8 DEF Text!codePointToUTF8, Six
  <2> QED
    BY <1>4, <1>5, <1>6, <2>1
<1>9. CASE cp > 2047 /\ cp <= 65535
  <2>1. Text!codePointToUTF8(cp) = <<224 + cp \div 4096, Six(cp \div 64), Six(cp)>>
    BY <1>9 DEF Text!codePointToUTF8, Six
  <2> QED
    BY <1>4, <1>5, <1>6, <2>1
<1>10. CASE cp > 65535 /\ cp <= 1114111
  <2>1. Text!codePointToUTF8(cp) = <<240 + cp \div 262144, Six(cp \div 4096), Six(cp \div 64), Six(cp)>>
    BY <1>10 DEF Text!codePointToUTF8, Six
  <2> QED
    BY <1>4, <1>5, <1>6, <2>1
<1>11. CASE cp > 1114111
  <2>1. Text!codePointToUTF8(cp) = << >>
    BY <1>11 DEF Text!codePointToUTF8
  <2> QED
    BY <1>4, <2>1
<1> QED
  BY <1>3, <1>7, <1>8, <1>9, <1>10, <1>11

LEMMA LetterIs ==
  /\ DOMAIN Text!Letter = {8, 9, 10, 12, 13}
  /\ Text!Letter[8] = 98 /\ Text!Letter[9] = 116 /\ Text!Letter[10] = 110
  /\ Text!Letter[12] = 102 /\ Text!Letter[13] = 114
BY DEF Text!Letter, Text!LF, Text!CR, Text!TAB

LEMMA EscapeTyped ==
  ASSUME NEW d \in Seq(Int), NEW i \in Int, NEW stop \in Int, Text!Escape(d, i, stop).ok,
         i \in 1..Len(d) => d[i] \in Int, stop <= Len(d), i >= 1
  PROVE  /\ Text!Escape(d, i, stop).current \in i + 1..stop
         /\ Text!Escape(d, i, stop).bytes \in Seq(Int)
<1> DEFINE letters == {c \in DOMAIN Text!Letter : Text!Letter[c] = d[i]}
           point == Text!decodeUnicodeCodePoint(d, i + 1, stop)
           read == Text!Escape(d, i, stop)
           Short(byte) == [ok |-> TRUE, bytes |-> <<byte>>, current |-> i + 1]
<1>1. i + 1 \in Int /\ point.unicode \in Int /\ (point.ok => point.current \in (i + 1) + 1..stop)
  <2>1. i + 1 \in Int
    OBVIOUS
  <2> QED
    BY <2>1, CodePointTyped
<1>2. Text!codePointToUTF8(point.unicode) \in Seq(Int)
  BY <1>1, EncodedTyped
<1>3. \A byte \in Int : Short(byte).bytes \in Seq(Int) /\ Short(byte).current = i + 1
  OBVIOUS
<1>4. read = IF i < stop /\ d[i] \in {Text!QUOTE, Text!SLASH, Text!BACKSLASH} THEN Short(d[i])
             ELSE IF i < stop /\ letters # {} THEN Short(CHOOSE c \in letters : TRUE)
             ELSE IF i < stop /\ d[i] = 117
             THEN [ok |-> point.ok, bytes |-> Text!codePointToUTF8(point.unicode), current |-> point.current]
             ELSE [ok |-> FALSE, bytes |-> << >>, current |-> i]
  BY DEF Text!Escape
<1>5. letters # {} => (CHOOSE c \in letters : TRUE) \in Int
  <2>1. \A c \in letters : c \in Int
    BY LetterIs
  <2> HIDE DEF letters
  <2> QED
    BY <2>1
<1>6. i < stop => d[i] \in Int /\ i + 1 \in i + 1..stop
  OBVIOUS
<1>7. read.ok
  OBVIOUS
<1> HIDE DEF letters, point, read
<1>8. CASE i < stop /\ d[i] \in {Text!QUOTE, Text!SLASH, Text!BACKSLASH}
  <2>1. read = Short(d[i])
    BY <1>4, <1>8
  <2> HIDE DEF Short
  <2>2. read.current \in i + 1..stop /\ read.bytes \in Seq(Int)
    BY <1>3, <1>6, <1>8, <2>1
  <2> QED
    BY <2>2 DEF read
<1>9. CASE i < stop /\ d[i] \notin {Text!QUOTE, Text!SLASH, Text!BACKSLASH} /\ letters # {}
  <2>1. read = Short(CHOOSE c \in letters : TRUE)
    BY <1>4, <1>9
  <2> HIDE DEF Short
  <2>2. read.current \in i + 1..stop /\ read.bytes \in Seq(Int)
    BY <1>3, <1>5, <1>6, <1>9, <2>1
  <2> QED
    BY <2>2 DEF read
<1>10. CASE i < stop /\ d[i] \notin {Text!QUOTE, Text!SLASH, Text!BACKSLASH} /\ letters = {} /\ d[i] = 117
  <2>1. read = [ok |-> point.ok, bytes |-> Text!codePointToUTF8(point.unicode), current |-> point.current]
    BY <1>4, <1>10
  <2>2. point.ok /\ read.current = point.current /\ read.bytes = Text!codePointToUTF8(point.unicode)
    BY <1>7, <2>1
  <2>3. (i + 1) + 1..stop \subseteq i + 1..stop
    OBVIOUS
  <2>4. read.current \in i + 1..stop /\ read.bytes \in Seq(Int)
    BY <1>1, <1>2, <2>2, <2>3
  <2> QED
    BY <2>4 DEF read
<1> QED
  <2>1. ~ (i < stop /\ d[i] \in {Text!QUOTE, Text!SLASH, Text!BACKSLASH}) /\ ~ (i < stop /\ letters # {})
          /\ ~ (i < stop /\ d[i] = 117) => read = [ok |-> FALSE, bytes |-> << >>, current |-> i]
    BY <1>4
  <2>2. ~ (~ (i < stop /\ d[i] \in {Text!QUOTE, Text!SLASH, Text!BACKSLASH}) /\ ~ (i < stop /\ letters # {})
          /\ ~ (i < stop /\ d[i] = 117))
    BY <1>7, <2>1
  <2> QED
    BY <1>8, <1>9, <1>10, <2>2, Zenon

(* decodeString(), place by place.                                         *)
Read(d, j) ==
  IF d[j] = Text!BACKSLASH THEN Text!Escape(d, j + 1, Len(d))
  ELSE [ok |-> TRUE, bytes |-> <<d[j]>>, current |-> j + 1]

LEMMA ReadTyped ==
  ASSUME NEW d \in Seq(Int), NEW j \in 1..Len(d) - 1, Read(d, j).ok
  PROVE  Read(d, j).current \in j + 1..Len(d) /\ Read(d, j).bytes \in Seq(Int)
<1>1. Len(d) \in Int /\ d[j] \in Int /\ j + 1 \in Int /\ j + 1 \in 1..Len(d) /\ d[j + 1] \in Int /\ j + 1 >= 1
  OBVIOUS
<1>2. CASE d[j] = Text!BACKSLASH
  <2>1. Read(d, j) = Text!Escape(d, j + 1, Len(d))
    BY <1>2 DEF Read
  <2>2. /\ Text!Escape(d, j + 1, Len(d)).current \in (j + 1) + 1..Len(d)
        /\ Text!Escape(d, j + 1, Len(d)).bytes \in Seq(Int)
    BY <1>1, <2>1, EscapeTyped
  <2>3. (j + 1) + 1..Len(d) \subseteq j + 1..Len(d)
    BY <1>1
  <2> QED
    BY <2>1, <2>2, <2>3
<1>3. CASE d[j] # Text!BACKSLASH
  BY <1>1, <1>3 DEF Read
<1> QED
  BY <1>2, <1>3

Results == {Text!Error} \cup {Text!String(x) : x \in Sequences}
Consed(bytes, rest) == IF rest = Text!Error THEN Text!Error ELSE Text!String(bytes \o rest.value)
DecodesFrom(f, d) ==
  \A j \in 2..Len(d) :
    f[j] = IF j = Len(d) \/ d[j] = 34 THEN Text!String(<< >>)
           ELSE IF ~ Read(d, j).ok THEN Text!Error
           ELSE Consed(Read(d, j).bytes, f[Read(d, j).current])

LEMMA ConsedTyped ==
  ASSUME NEW bytes \in Seq(Int), NEW r \in Results
  PROVE  Consed(bytes, r) \in Results
<1>1. CASE r = Text!Error
  BY <1>1 DEF Consed, Results
<1>2. CASE r # Text!Error
  <2>1. PICK x \in Sequences : r = Text!String(x)
    BY <1>2 DEF Results
  <2>2. r.value = x
    BY <2>1 DEF Text!String
  <2>3. bytes \o x \in Sequences
    BY <2>1 DEF Sequences
  <2> QED
    BY <1>2, <2>2, <2>3 DEF Consed, Results
<1> QED
  BY <1>1, <1>2

LEMMA DecodeStringIs ==
  ASSUME NEW d \in Seq(Int), Len(d) >= 2
  PROVE  \E f : DecodesFrom(f, d) /\ Text!decodeString(d) = f[2]
<1> DEFINE low == 2
           high == Len(d)
           ends == {j \in low..high : j = high \/ d[j] = 34}
           stops == {j \in low..high : j = high \/ d[j] = 34 \/ ~ Read(d, j).ok}
           next == [j \in low..high |-> Read(d, j).current]
           base == [j \in low..high |-> IF j = high \/ d[j] = 34 THEN Text!String(<< >>) ELSE Text!Error]
           step == [j \in low..high |-> [r \in Results |-> IF j \in stops THEN r ELSE Consed(Read(d, j).bytes, r)]]
           Entry(f, j) == IF j = high \/ d[j] = 34 THEN Text!String(<< >>)
                          ELSE IF ~ Read(d, j).ok THEN Text!Error
                          ELSE Consed(Read(d, j).bytes, f[Read(d, j).current])
           Is(f) == f = [i \in 2..Len(d) |->
                           IF i = Len(d) \/ d[i] = Text!QUOTE THEN Text!String(<< >>)
                           ELSE IF ~ Read(d, i).ok \/ f[Read(d, i).current] = Text!Error THEN Text!Error
                           ELSE Text!String(Read(d, i).bytes \o f[Read(d, i).current].value)]
<1>1. low \in Int /\ high \in Int /\ low <= high /\ Len(d) \in Nat
  OBVIOUS
<1>2. \A j \in low..high : j \notin stops => j \in 1..Len(d) - 1 /\ Read(d, j).ok
  BY <1>1
<1>3. \A j \in low..high : j \notin stops => next[j] \in j + 1..high /\ Read(d, j).bytes \in Seq(Int)
  BY <1>2, ReadTyped
<1>4. Leads(next, stops, low, high)
  BY <1>3 DEF Leads
<1>5. base \in Entries(low, high, Results)
  <2>1. Text!Error \in Results /\ Text!String(<< >>) \in Results
    <3>1. << >> \in Sequences
      BY DEF Sequences
    <3> QED
      BY <3>1 DEF Results
  <2> HIDE DEF low, high
  <2> QED
    BY <2>1 DEF Entries
<1>6. step \in Steps(low, high, Results)
  <2>1. \A j \in low..high : \A r \in Results : (IF j \in stops THEN r ELSE Consed(Read(d, j).bytes, r)) \in Results
    BY <1>3, ConsedTyped
  <2> HIDE DEF low, high, stops
  <2> QED
    BY <2>1 DEF Steps
<1>7. PICK f : Descends(f, low, high, Results, stops, base, next, step)
  <2> HIDE DEF low, high, stops, base, next, step
  <2> QED
    BY <1>1, <1>4, <1>5, <1>6, DescentExists
<1>8. f \in [low..high -> Results]
  BY <1>7 DEF Descends
<1>9. ASSUME NEW j \in low..high PROVE f[j] = Entry(f, j)
  <2>1. f[j] = IF j \in stops THEN base[j] ELSE step[j][f[next[j]]]
    BY <1>7 DEF Descends
  <2>2. CASE j \in stops
    <3>1. f[j] = base[j]
      BY <2>1, <2>2
    <3>2. base[j] = IF j = high \/ d[j] = 34 THEN Text!String(<< >>) ELSE Text!Error
      OBVIOUS
    <3>3. j = high \/ d[j] = 34 \/ ~ Read(d, j).ok
      BY <2>2
    <3> HIDE DEF base, high, stops
    <3> QED
      BY <3>1, <3>2, <3>3
  <2>3. CASE j \notin stops
    <3>1. next[j] = Read(d, j).current /\ next[j] \in j + 1..high
      BY <1>3, <2>3
    <3>2. next[j] \in low..high
      <4> HIDE DEF next, high
      <4> QED
        BY <1>1, <3>1
    <3>3. f[next[j]] \in Results
      BY <1>8, <3>2
    <3>4. step[j][f[next[j]]] = Consed(Read(d, j).bytes, f[next[j]])
      <4> HIDE DEF low, high, stops, next
      <4> QED
        BY <2>3, <3>3
    <3>5. j # high /\ d[j] # 34 /\ Read(d, j).ok
      BY <2>3
    <3>6. f[j] = Consed(Read(d, j).bytes, f[Read(d, j).current])
      <4> HIDE DEF step, next, stops
      <4> QED
        BY <2>1, <2>3, <3>1, <3>4
    <3> HIDE DEF high
    <3> QED
      BY <3>5, <3>6
  <2> QED
    BY <2>2, <2>3
<1>10. Is(f)
  <2>1. ASSUME NEW j \in low..high
        PROVE  Entry(f, j) = IF j = Len(d) \/ d[j] = Text!QUOTE THEN Text!String(<< >>)
                             ELSE IF ~ Read(d, j).ok \/ f[Read(d, j).current] = Text!Error THEN Text!Error
                             ELSE Text!String(Read(d, j).bytes \o f[Read(d, j).current].value)
    BY DEF Consed, Text!QUOTE
  <2> HIDE DEF Entry
  <2> QED
    BY <1>8, <1>9, <2>1
<1>11. \E g : Is(g)
  BY <1>10
<1>12. PICK g : Is(g) /\ Text!decodeString(d) = g[2]
  BY <1>11 DEF Text!decodeString, Read
<1>13. ASSUME NEW j \in 2..Len(d) PROVE g[j] = Entry(g, j)
  <2>1. g[j] = IF j = Len(d) \/ d[j] = Text!QUOTE THEN Text!String(<< >>)
               ELSE IF ~ Read(d, j).ok \/ g[Read(d, j).current] = Text!Error THEN Text!Error
               ELSE Text!String(Read(d, j).bytes \o g[Read(d, j).current].value)
    BY <1>12
  <2> QED
    BY <2>1 DEF Consed, Text!QUOTE
<1> QED
  BY <1>12, <1>13 DEF DecodesFrom

-------------------------------------------------------------------------------
(* What stands in a string is found and decoded move by move: a plain byte, *)
(* a short escape, the escape of a code unit, or of two halves.             *)

(* What a lexer and a decoder make of a document, place by place.          *)
Tables(f, g, d) == d \in Seq(Int) /\ ReadsFrom(f, d) /\ DecodesFrom(g, d)

(* Inside of a string of the length n: at least m bytes before its end.    *)
Inside(p, m, n) == p \in Int /\ m \in Int /\ n \in Int /\ 2 <= p /\ p + m <= n
Plain(c) == c \notin {34, 92}

LEMMA PlainMove ==
  ASSUME NEW d, NEW f, NEW g, Tables(f, g, d), NEW p \in Int, Inside(p, 1, Len(d)), Plain(d[p])
  PROVE  f[p] = f[p + 1] /\ g[p] = Consed(<<d[p]>>, g[p + 1])
<1>1. p \in 2..Len(d) /\ p # Len(d) /\ d[p] # 34 /\ d[p] # 92
  BY DEF Inside, Plain
<1>2. Read(d, p) = [ok |-> TRUE, bytes |-> <<d[p]>>, current |-> p + 1]
  BY <1>1 DEF Read, Text!BACKSLASH
<1>3. f[p] = f[p + 1]
  BY <1>1 DEF Tables, ReadsFrom
<1>4. g[p] = Consed(<<d[p]>>, g[p + 1])
  <2>1. g[p] = Consed(Read(d, p).bytes, g[Read(d, p).current])
    <3>1. DecodesFrom(g, d)
      BY DEF Tables
    <3>2. g[p] = IF p = Len(d) \/ d[p] = 34 THEN Text!String(<< >>)
                 ELSE IF ~ Read(d, p).ok THEN Text!Error
                 ELSE Consed(Read(d, p).bytes, g[Read(d, p).current])
      BY <1>1, <3>1, ZenonT(60) DEF DecodesFrom
    <3>3. Read(d, p).ok
      BY <1>2
    <3> QED
      BY <1>1, <3>2, <3>3, ZenonT(60)
  <2> QED
    BY <1>2, <2>1
<1> QED
  BY <1>3, <1>4

LEMMA ShortMove ==
  ASSUME NEW d, NEW f, NEW g, Tables(f, g, d), NEW p \in Int, Inside(p, 2, Len(d)), d[p] = 92, NEW c,
         \/ c \in {34, 92} /\ d[p + 1] = c
         \/ c \in DOMAIN Text!Letter /\ d[p + 1] = Text!Letter[c]
  PROVE  f[p] = f[p + 2] /\ g[p] = Consed(<<c>>, g[p + 2])
<1>1. p \in 2..Len(d) /\ p # Len(d) /\ p < Len(d) /\ p + 1 < Len(d) /\ (p + 1) + 1 = p + 2
  BY DEF Inside
<1>2. Text!Escape(d, p + 1, Len(d)) = [ok |-> TRUE, bytes |-> <<c>>, current |-> p + 2]
  <2>1. CASE c \in {34, 92} /\ d[p + 1] = c
    BY <1>1, <2>1 DEF Text!Escape, Text!QUOTE, Text!BACKSLASH
  <2>2. CASE c \in DOMAIN Text!Letter /\ d[p + 1] = Text!Letter[c]
    <3> DEFINE letters == {x \in DOMAIN Text!Letter : Text!Letter[x] = d[p + 1]}
    <3>1. letters = {c}
      BY <2>2, LetterIs
    <3>2. d[p + 1] \notin {Text!QUOTE, Text!SLASH, Text!BACKSLASH}
      BY <2>2, LetterIs DEF Text!QUOTE, Text!SLASH, Text!BACKSLASH
    <3>3. letters # {} /\ (CHOOSE x \in letters : TRUE) = c
      BY <3>1
    <3>4. Text!Escape(d, p + 1, Len(d)) =
            [ok |-> TRUE, bytes |-> <<CHOOSE x \in letters : TRUE>>, current |-> (p + 1) + 1]
      BY <1>1, <3>2, <3>3 DEF Text!Escape
    <3> HIDE DEF letters
    <3> QED
      BY <1>1, <3>3, <3>4
  <2> QED
    BY <2>1, <2>2
<1>3. Read(d, p) = [ok |-> TRUE, bytes |-> <<c>>, current |-> p + 2]
  BY <1>2 DEF Read, Text!BACKSLASH
<1>4. f[p] = f[p + 2]
  BY <1>1 DEF Tables, ReadsFrom
<1>5. g[p] = Consed(<<c>>, g[p + 2])
  <2>1. g[p] = Consed(Read(d, p).bytes, g[Read(d, p).current])
    <3>1. p \in 2..Len(d) /\ p # Len(d) /\ d[p] # 34 /\ Read(d, p).ok
      BY <1>1, <1>3
    <3> QED
      BY <3>1 DEF Tables, DecodesFrom
  <2> QED
    BY <1>3, <2>1
<1> QED
  BY <1>4, <1>5

(* An escape of the code unit n at p.                                      *)
EscapeAt(d, p, n) ==
  /\ d[p] = 92 /\ d[p + 1] = 117
  /\ \A k \in 1..4 : d[p + 1 + k] = HexOf(n)[k]

LEMMA ElementsTyped ==
  ASSUME NEW s \in Seq(Int)
  PROVE  Len(s) \in Nat /\ \A k \in 1..Len(s) : k - 1 \in 0..Len(s) /\ s[k] \in Int
OBVIOUS

LEMMA FourSum ==
  ASSUME NEW s \in Seq(Int), Len(s) = 4
  PROVE  Text!Positional(s, 16, 0) = Sum16(s)
<1>1. ASSUME NEW base \in Int, base = 16, NEW zero \in Int, zero = 0
      PROVE  Text!Positional(s, base, zero) = Sum16(s)
  <2>1. PICK f \in [0..Len(s) -> Int] :
           /\ f[0] = 0 /\ Text!Positional(s, base, zero) = f[Len(s)]
           /\ \A k \in 1..Len(s) : f[k] = (f[k - 1] * base) + (s[k] - zero)
    BY PositionalIs
  <2>2. 1 \in 1..Len(s) /\ 2 \in 1..Len(s) /\ 3 \in 1..Len(s) /\ 4 \in 1..Len(s)
    OBVIOUS
  <2>3. s[1] \in Int /\ s[2] \in Int /\ s[3] \in Int /\ s[4] \in Int
    <3>1. \A i \in 1..Len(s) : s[i] \in Int
      BY ElementsTyped
    <3> QED
      BY <2>2, <3>1
  <2>4. f[1] = (f[0] * 16) + s[1] /\ f[2] = (f[1] * 16) + s[2] /\ f[3] = (f[2] * 16) + s[3] /\ f[4] = (f[3] * 16) + s[4]
    <3>1. \A k \in 1..Len(s) : f[k - 1] \in Int /\ f[k] = (f[k - 1] * 16) + s[k]
      <4>1. \A k \in 1..Len(s) : k - 1 \in 0..Len(s) /\ s[k] \in Int
        BY ElementsTyped
      <4>2. \A k \in 1..Len(s) : f[k - 1] \in Int /\ f[k] = (f[k - 1] * base) + (s[k] - zero)
        BY <2>1, <4>1
      <4>3. \A k \in 1..Len(s) : s[k] - zero = s[k]
        BY <1>1, <4>1
      <4> QED
        BY <1>1, <4>2, <4>3
    <3>2. 1 - 1 = 0 /\ 2 - 1 = 1 /\ 3 - 1 = 2 /\ 4 - 1 = 3
      OBVIOUS
    <3> QED
      BY <2>2, <3>1, <3>2
  <2> QED
    BY <2>1, <2>3, <2>4 DEF Sum16
<1> QED
  BY <1>1

HexAt(d, i, n) == \A k \in 1..4 : d[i + k - 1] = HexOf(n)[k]

IsUnit(read, n, q) == read = [ok |-> TRUE, unicode |-> n, current |-> q]

LEMMA HexDecoded ==
  ASSUME NEW d, NEW i \in Int, NEW stop \in Int, Inside(i, 4, stop), NEW n \in CodeUnit, HexAt(d, i, n)
  PROVE  IsUnit(Text!decodeUnicodeEscapeSequence(d, i, stop), n, i + 4)
<1> DEFINE digits == [k \in 1..4 |-> Text!HexValue(d[i + k - 1])]
           ok == stop - i >= 4 /\ \A k \in 1..4 : digits[k] >= 0
<1>0. n \in Int
  BY CodeUnitTyped
<1>1. Nibbles(n) \in [1..4 -> 0..15] /\ Sum16(Nibbles(n)) = n
  BY <1>0, NibblesAre, NibblesSum
<1>2. \A k \in 1..4 : digits[k] = Nibbles(n)[k]
  BY <1>0, HexOfIs DEF HexAt
<1>3. digits = Nibbles(n)
  BY <1>1, <1>2
<1>4. ok
  BY <1>1, <1>2 DEF Inside
<1>5. Nibbles(n) \in Seq(Int) /\ Len(Nibbles(n)) = 4
  <2>1. Nibbles(n) \in [1..4 -> Int]
    BY <1>1
  <2>2. ASSUME NEW m \in Nat, m = 4 PROVE Nibbles(n) \in Seq(Int) /\ Len(Nibbles(n)) = m
    BY <2>1, <2>2, SequenceOf
  <2> QED
    BY <2>2
<1>6. Text!Positional(Nibbles(n), 16, 0) = n
  BY <1>1, <1>5, FourSum
<1>7. Text!decodeUnicodeEscapeSequence(d, i, stop) =
        [ok |-> ok, unicode |-> IF ok THEN Text!Positional(digits, 16, 0) ELSE 0, current |-> i + 4]
  BY DEF Text!decodeUnicodeEscapeSequence
<1> HIDE DEF digits, ok
<1> QED
  BY <1>3, <1>4, <1>6, <1>7 DEF IsUnit

LEMMA EscapeDigits ==
  ASSUME NEW d, NEW p \in Int, NEW n \in CodeUnit, EscapeAt(d, p, n)
  PROVE  /\ d[p] = 92 /\ d[p + 1] = 117
         /\ \A i \in p + 2..p + 5 : d[i] \notin {34, 92}
         /\ HexAt(d, p + 2, n)
<1>1. \A k \in 1..4 : d[p + 1 + k] = HexOf(n)[k] /\ HexOf(n)[k] \notin {34, 92}
  <2>1. n \in Int
    BY CodeUnitTyped
  <2>2. HexOf(n) \in [1..4 -> 48..57 \cup 65..70]
    BY <2>1, HexOfIs
  <2>3. \A k \in 1..4 : HexOf(n)[k] \notin {34, 92}
    BY <2>2
  <2> QED
    BY <2>3 DEF EscapeAt
<1>2. \A i \in p + 2..p + 5 : i - (p + 1) \in 1..4 /\ p + 1 + (i - (p + 1)) = i
  OBVIOUS
<1>3. \A k \in 1..4 : (p + 2) + k - 1 = p + 1 + k
  OBVIOUS
<1>4. \A i \in p + 2..p + 5 : d[i] \notin {34, 92}
  BY <1>1, <1>2
<1>5. \A k \in 1..4 : d[(p + 2) + k - 1] = HexOf(n)[k]
  BY <1>1, <1>3
<1> QED
  BY <1>4, <1>5 DEF EscapeAt, HexAt

LEMMA EscapeRead ==
  ASSUME NEW d, NEW f, NEW g, Tables(f, g, d), NEW p \in Int, Inside(p, 6, Len(d)), NEW n \in CodeUnit, EscapeAt(d, p, n)
  PROVE  f[p] = f[p + 6]
<1>1. p \in Int /\ Len(d) \in Int /\ p >= 2 /\ p + 6 <= Len(d)
  BY DEF Inside
<1>2. d[p] = 92 /\ \A i \in p + 2..p + 5 : d[i] \notin {34, 92}
  BY <1>1, EscapeDigits
<1>3. f[p] = f[p + 2]
  <2>1. p \in 2..Len(d) /\ p < Len(d)
    BY <1>1
  <2> QED
    BY <1>2, <2>1 DEF Tables, ReadsFrom
<1>4. \A i \in p + 2..p + 5 : f[i] = f[i + 1]
  <2>1. \A i \in p + 2..p + 5 : Inside(i, 1, Len(d))
    BY <1>1 DEF Inside
  <2>2. ASSUME NEW i \in p + 2..p + 5 PROVE f[i] = f[i + 1]
    <3>1. i \in Int /\ Inside(i, 1, Len(d)) /\ Plain(d[i])
      BY <1>2, <2>1 DEF Plain
    <3> QED
      BY <3>1, PlainMove
  <2> QED
    BY <2>2
<1>5. f[p + 2] = f[p + 3] /\ f[p + 3] = f[p + 4] /\ f[p + 4] = f[p + 5] /\ f[p + 5] = f[p + 6]
  <2>1. p + 2 \in p + 2..p + 5 /\ p + 3 \in p + 2..p + 5 /\ p + 4 \in p + 2..p + 5 /\ p + 5 \in p + 2..p + 5
    BY <1>1
  <2>2. (p + 2) + 1 = p + 3 /\ (p + 3) + 1 = p + 4 /\ (p + 4) + 1 = p + 5 /\ (p + 5) + 1 = p + 6
    BY <1>1
  <2> QED
    BY <1>4, <2>1, <2>2
<1> QED
  BY <1>3, <1>5

(* An escape makes the decoder ask for the code point behind the letter u. *)
LEMMA EscapeAsks ==
  ASSUME NEW d, NEW f, NEW g, Tables(f, g, d), NEW p \in Int, Inside(p, 2, Len(d)), d[p] = 92, d[p + 1] = 117,
         NEW cp, NEW q,
         Text!decodeUnicodeCodePoint(d, p + 2, Len(d)) = [ok |-> TRUE, unicode |-> cp, current |-> q]
  PROVE  g[p] = Consed(Text!codePointToUTF8(cp), g[q])
<1>1. p \in 2..Len(d) /\ p # Len(d) /\ p < Len(d) /\ p + 1 < Len(d) /\ (p + 1) + 1 = p + 2
  BY DEF Inside
<1>2. Text!Escape(d, p + 1, Len(d)) = [ok |-> TRUE, bytes |-> Text!codePointToUTF8(cp), current |-> q]
  <2> DEFINE letters == {x \in DOMAIN Text!Letter : Text!Letter[x] = d[p + 1]}
             point == Text!decodeUnicodeCodePoint(d, (p + 1) + 1, Len(d))
  <2>1. letters = {}
    BY LetterIs
  <2>2. d[p + 1] \notin {Text!QUOTE, Text!SLASH, Text!BACKSLASH}
    BY DEF Text!QUOTE, Text!SLASH, Text!BACKSLASH
  <2>3. point = [ok |-> TRUE, unicode |-> cp, current |-> q]
    BY <1>1
  <2>4. Text!Escape(d, p + 1, Len(d)) =
          [ok |-> point.ok, bytes |-> Text!codePointToUTF8(point.unicode), current |-> point.current]
    BY <1>1, <2>1, <2>2 DEF Text!Escape
  <2> HIDE DEF letters, point
  <2>5. point.ok = TRUE /\ point.unicode = cp /\ point.current = q
    BY <2>3
  <2> QED
    BY <2>4, <2>5
<1>3. Read(d, p) = [ok |-> TRUE, bytes |-> Text!codePointToUTF8(cp), current |-> q]
  BY <1>2 DEF Read, Text!BACKSLASH
<1>4. Read(d, p).ok /\ Read(d, p).bytes = Text!codePointToUTF8(cp) /\ Read(d, p).current = q
  BY <1>3
<1>5. g[p] = Consed(Read(d, p).bytes, g[Read(d, p).current])
  <2>1. p \in 2..Len(d) /\ p # Len(d) /\ d[p] # 34 /\ Read(d, p).ok
    BY <1>1, <1>4
  <2> QED
    BY <2>1 DEF Tables, DecodesFrom
<1> QED
  BY <1>4, <1>5

HighHalf == 55296..56319
LEMMA UnicodeMove ==
  ASSUME NEW d, NEW f, NEW g, Tables(f, g, d), NEW p \in Int, Inside(p, 6, Len(d)), NEW n \in CodeUnit,
         n \notin HighHalf, EscapeAt(d, p, n)
  PROVE  f[p] = f[p + 6] /\ g[p] = Consed(Text!codePointToUTF8(n), g[p + 6])
<1>1. p \in Int /\ Len(d) \in Int /\ p + 2 \in Int /\ (p + 2) + 4 = p + 6
  BY DEF Inside
<1>0. Inside(p, 2, Len(d)) /\ Inside(p + 2, 4, Len(d))
  BY DEF Inside
<1>2. f[p] = f[p + 6]
  BY EscapeRead
<1>3. d[p] = 92 /\ d[p + 1] = 117 /\ HexAt(d, p + 2, n)
  BY <1>1, EscapeDigits
<1> DEFINE first == Text!decodeUnicodeEscapeSequence(d, p + 2, Len(d))
           point == Text!decodeUnicodeCodePoint(d, p + 2, Len(d))
<1>4. first = [ok |-> TRUE, unicode |-> n, current |-> p + 6]
  <2>1. p + 2 \in Int /\ Len(d) \in Int /\ Inside(p + 2, 4, Len(d)) /\ HexAt(d, p + 2, n)
    BY <1>0, <1>1, <1>3
  <2>2. IsUnit(Text!decodeUnicodeEscapeSequence(d, p + 2, Len(d)), n, (p + 2) + 4)
    BY <2>1, HexDecoded, SMTT(40)
  <2> QED
    BY <1>1, <2>2 DEF IsUnit
<1>5. (~ first.ok \/ first.unicode \notin HighHalf) => point = first
  BY DEF Text!decodeUnicodeCodePoint, HighHalf
<1> HIDE DEF first
<1>6. point = [ok |-> TRUE, unicode |-> n, current |-> p + 6]
  <2>1. first.unicode = n
    BY <1>4
  <2> HIDE DEF point
  <2> QED
    BY <1>4, <1>5, <2>1
<1>7. g[p] = Consed(Text!codePointToUTF8(n), g[p + 6])
  BY <1>0, <1>3, <1>6, EscapeAsks
<1> QED
  BY <1>2, <1>7

Joined(high, low) == 65536 + ((high % 1024) * 1024) + (low % 1024)
LEMMA PairMove ==
  ASSUME NEW d, NEW f, NEW g, Tables(f, g, d), NEW p \in Int, Inside(p, 12, Len(d)), NEW n \in CodeUnit, n \in HighHalf,
         NEW m \in CodeUnit, EscapeAt(d, p, n), EscapeAt(d, p + 6, m)
  PROVE  f[p] = f[p + 12] /\ g[p] = Consed(Text!codePointToUTF8(Joined(n, m)), g[p + 12])
<1>1. /\ p \in Int /\ Len(d) \in Int /\ p + 2 \in Int /\ Len(d) - (p + 2) >= 10 /\ (p + 2) + 4 = p + 6
      /\ p + 6 \in Int /\ (p + 6) + 6 = p + 12 /\ (p + 6) + 1 = (p + 2) + 5
      /\ p + 8 \in Int /\ (p + 6) + 2 = p + 8 /\ (p + 2) + 6 = p + 8 /\ (p + 8) + 4 = p + 12
  BY DEF Inside
<1>0. /\ Inside(p, 2, Len(d)) /\ Inside(p, 6, Len(d)) /\ Inside(p + 2, 4, Len(d))
      /\ Inside(p + 6, 6, Len(d)) /\ Inside(p + 8, 4, Len(d))
  BY DEF Inside
<1>2. f[p] = f[p + 6] /\ f[p + 6] = f[p + 12]
  <2>1. f[p] = f[p + 6]
    BY <1>0, EscapeRead
  <2>2. f[p + 6] = f[(p + 6) + 6]
    BY <1>0, EscapeRead
  <2> QED
    BY <1>1, <2>1, <2>2
<1>3. d[p] = 92 /\ d[p + 1] = 117 /\ HexAt(d, p + 2, n)
  BY <1>1, EscapeDigits
<1>4. d[(p + 2) + 4] = 92 /\ d[(p + 2) + 5] = 117 /\ HexAt(d, p + 8, m)
  <2>1. d[p + 6] = 92 /\ d[(p + 6) + 1] = 117 /\ HexAt(d, (p + 6) + 2, m)
    BY <1>1, EscapeDigits
  <2> QED
    BY <1>1, <2>1
<1> DEFINE first == Text!decodeUnicodeEscapeSequence(d, p + 2, Len(d))
           second == Text!decodeUnicodeEscapeSequence(d, (p + 2) + 6, Len(d))
           paired == Len(d) - (p + 2) >= 10 /\ d[(p + 2) + 4] = Text!BACKSLASH /\ d[(p + 2) + 5] = 117
           unicode == 65536 + ((first.unicode % 1024) * 1024) + (second.unicode % 1024)
           point == Text!decodeUnicodeCodePoint(d, p + 2, Len(d))
<1>5. first = [ok |-> TRUE, unicode |-> n, current |-> p + 6]
  <2>1. p + 2 \in Int /\ Len(d) \in Int /\ Inside(p + 2, 4, Len(d)) /\ HexAt(d, p + 2, n)
    BY <1>0, <1>1, <1>3
  <2>2. IsUnit(Text!decodeUnicodeEscapeSequence(d, p + 2, Len(d)), n, (p + 2) + 4)
    BY <2>1, HexDecoded
  <2> QED
    BY <1>1, <2>2 DEF IsUnit
<1>6. second = [ok |-> TRUE, unicode |-> m, current |-> p + 12]
  <2>1. p + 8 \in Int /\ Len(d) \in Int /\ Inside(p + 8, 4, Len(d)) /\ HexAt(d, p + 8, m)
    BY <1>0, <1>1, <1>4
  <2>2. IsUnit(Text!decodeUnicodeEscapeSequence(d, p + 8, Len(d)), m, (p + 8) + 4)
    BY <2>1, HexDecoded
  <2> QED
    BY <1>1, <2>2 DEF IsUnit
<1>7. paired
  BY <1>1, <1>4 DEF Text!BACKSLASH
<1>8. second = [ok |-> second.ok, unicode |-> second.unicode, current |-> second.current]
  BY SMTT(40) DEF Text!decodeUnicodeEscapeSequence
<1>9. first.ok /\ first.unicode \in HighHalf /\ paired => point = [second EXCEPT !.unicode = unicode]
  BY <1>8 DEF Text!decodeUnicodeCodePoint, HighHalf
<1> HIDE DEF first, second, paired
<1>10. first.ok /\ first.unicode = n /\ second.unicode = m
  BY <1>5, <1>6
<1>11. unicode = Joined(n, m)
  BY <1>10 DEF Joined
<1> HIDE DEF unicode, point
<1>12. point = [second EXCEPT !.unicode = unicode]
  BY <1>7, <1>9, <1>10
<1>13. point = [ok |-> TRUE, unicode |-> Joined(n, m), current |-> p + 12]
  BY <1>6, <1>11, <1>12
<1> USE DEF point
<1>14. g[p] = Consed(Text!codePointToUTF8(Joined(n, m)), g[p + 12])
  BY <1>0, <1>3, <1>13, EscapeAsks
<1> QED
  BY <1>2, <1>14

-------------------------------------------------------------------------------
(* A string that was written is a row of such moves. *)

LEMMA PrefixIs ==
  ASSUME NEW n \in Nat, NEW parts, NEW h, Concatenates(h, parts, n), \A k \in 1..n : parts[k] \in Seq(Int)
  PROVE  \A m \in 0..n : \A k \in 0..m :
           /\ Len(h[k]) \in Nat /\ Len(h[m]) \in Nat /\ Len(h[k]) <= Len(h[m])
           /\ \A i \in 1..Len(h[k]) : h[m][i] = h[k][i]
<1> DEFINE Good(m, k) == /\ Len(h[k]) \in Nat /\ Len(h[m]) \in Nat /\ Len(h[k]) <= Len(h[m])
                         /\ \A i \in 1..Len(h[k]) : h[m][i] = h[k][i]
           K == {m \in Nat : m <= n => \A k \in 0..m : Good(m, k)}
<1>1. \A k \in 0..n : h[k] \in Seq(Int) /\ Len(h[k]) \in Nat
  BY DEF Concatenates, Sequences
<1>2. 0 \in K
  BY <1>1
<1>3. ASSUME NEW m \in Nat, m \in K PROVE m + 1 \in K
  <2> SUFFICES ASSUME m + 1 <= n, NEW k \in 0..m + 1 PROVE Good(m + 1, k)
    OBVIOUS
  <2>1. m + 1 \in 1..n /\ m \in 0..n /\ (m + 1) - 1 = m /\ m + 1 \in 0..n /\ m <= n
    OBVIOUS
  <2>2. h[m + 1] = h[m] \o parts[m + 1] /\ h[m] \in Seq(Int) /\ parts[m + 1] \in Seq(Int)
    BY <1>1, <2>1 DEF Concatenates
  <2>3. /\ Len(h[m + 1]) = Len(h[m]) + Len(parts[m + 1]) /\ Len(parts[m + 1]) \in Nat
        /\ \A i \in 1..Len(h[m]) : h[m + 1][i] = h[m][i]
    <3> DEFINE s == h[m]
               t == parts[m + 1]
               z == h[m + 1]
    <3>1. s \in Seq(Int) /\ t \in Seq(Int) /\ z = s \o t
      BY <2>2
    <3> HIDE DEF s, t, z
    <3>2. Len(z) = Len(s) + Len(t) /\ Len(t) \in Nat /\ \A i \in 1..Len(s) : z[i] = s[i]
      BY <3>1, Concatenated
    <3> QED
      BY <3>2 DEF s, t, z
  <2>4. CASE k = m + 1
    <3>1. Len(h[k]) \in Nat /\ h[k] = h[m + 1]
      BY <1>1, <2>1, <2>4
    <3> QED
      BY <3>1
  <2>5. CASE k # m + 1
    <3>1. k \in 0..m /\ k \in 0..n
      BY <2>1, <2>5
    <3>2. Good(m, k)
      BY <1>3, <2>1, <3>1
    <3>3. \A i \in 1..Len(h[k]) : i \in 1..Len(h[m])
      BY <3>2
    <3>4. \A i \in 1..Len(h[k]) : h[m + 1][i] = h[k][i]
      BY <2>3, <3>2, <3>3
    <3>5. Len(h[m + 1]) \in Nat
      BY <1>1, <2>1
    <3>6. Len(h[k]) <= Len(h[m + 1])
      <4> DEFINE a == Len(h[k])
                 b == Len(h[m])
                 c == Len(parts[m + 1])
                 e == Len(h[m + 1])
      <4>1. a \in Nat /\ b \in Nat /\ c \in Nat /\ a <= b /\ e = b + c
        BY <2>3, <3>2
      <4> HIDE DEF a, b, c, e
      <4>2. a <= e
        BY <4>1
      <4> QED
        BY <4>2 DEF a, e
    <3> QED
      BY <3>2, <3>4, <3>5, <3>6
  <2> QED
    BY <2>4, <2>5
<1>4. \A m \in 0..n : m \in K
  <2> HIDE DEF K
  <2> QED
    BY <1>2, <1>3, SetInduction
<1> QED
  BY <1>4

(* The sequence e stands in d from p on.                                   *)
Stands(e, d, p) == \A i \in 1..Len(e) : d[p + i - 1] = e[i]

(* The parts stand in d one behind the other, between two quotes.          *)
AreSequences(parts, n) == \A k \in 1..n : parts[k] \in Seq(Int)
Placed(d, h, parts, n) ==
  /\ d \in Seq(Int) /\ Len(d) = Len(h[n]) + 2 /\ d[1] = 34 /\ d[Len(d)] = 34
  /\ \A k \in 1..n : /\ 2 + Len(h[k]) = (2 + Len(h[k - 1])) + Len(parts[k]) /\ 2 + Len(h[k]) <= Len(d)
                     /\ Len(h[k - 1]) \in Nat /\ Len(parts[k]) \in Nat
                     /\ Stands(parts[k], d, 2 + Len(h[k - 1]))

LEMMA PartStands ==
  ASSUME NEW n \in Nat, NEW parts, NEW h, Concatenates(h, parts, n), AreSequences(parts, n)
  PROVE  Placed(Text!Quoted(h[n]), h, parts, n)
<1> DEFINE d == Text!Quoted(h[n])
<1>0. \A k \in 1..n : parts[k] \in Seq(Int)
  BY DEF AreSequences
<1>1. \A k \in 0..n : h[k] \in Seq(Int) /\ Len(h[k]) \in Nat
  BY DEF Concatenates, Sequences
<1>2. n \in 0..n
  OBVIOUS
<1>3. /\ d \in Seq(Int) /\ Len(d) = Len(h[n]) + 2 /\ d[1] = 34 /\ d[Len(h[n]) + 2] = 34
      /\ \A i \in 1..Len(h[n]) : d[i + 1] = h[n][i]
  BY <1>1, <1>2, QuotedSequence
<1> HIDE DEF d
<1>4. ASSUME NEW k \in 1..n
      PROVE  /\ 2 + Len(h[k]) = (2 + Len(h[k - 1])) + Len(parts[k]) /\ 2 + Len(h[k]) <= Len(d)
             /\ Len(h[k - 1]) \in Nat /\ Len(parts[k]) \in Nat
             /\ Stands(parts[k], d, 2 + Len(h[k - 1]))
  <2>1. k \in 0..n /\ k - 1 \in 0..n
    OBVIOUS
  <2>2. h[k] = h[k - 1] \o parts[k] /\ h[k - 1] \in Seq(Int) /\ parts[k] \in Seq(Int)
    BY <1>0, <1>1, <2>1 DEF Concatenates
  <2>3. /\ Len(h[k]) = Len(h[k - 1]) + Len(parts[k]) /\ Len(parts[k]) \in Nat /\ Len(h[k - 1]) \in Nat
        /\ \A i \in 1..Len(parts[k]) : h[k][Len(h[k - 1]) + i] = parts[k][i]
    <3> DEFINE s == h[k - 1]
               t == parts[k]
               z == h[k]
    <3>1. s \in Seq(Int) /\ t \in Seq(Int) /\ z = s \o t
      BY <2>2
    <3> HIDE DEF s, t, z
    <3>2. Len(z) = Len(s) + Len(t) /\ Len(t) \in Nat /\ Len(s) \in Nat /\ \A i \in 1..Len(t) : z[Len(s) + i] = t[i]
      BY <3>1, Concatenated
    <3> QED
      BY <3>2 DEF s, t, z
  <2>4. Len(h[k]) <= Len(h[n]) /\ \A i \in 1..Len(h[k]) : h[n][i] = h[k][i]
    BY <1>0, <1>2, <2>1, PrefixIs
  <2> DEFINE a == Len(h[k - 1])
             b == Len(parts[k])
             c == Len(h[k])
             e == Len(h[n])
  <2>6. a \in Nat /\ b \in Nat /\ c = a + b /\ c <= e /\ e \in Nat
    BY <1>1, <1>2, <2>3, <2>4
  <2>7. /\ \A i \in 1..b : h[k][a + i] = parts[k][i]
        /\ \A i \in 1..c : h[n][i] = h[k][i]
        /\ \A i \in 1..e : d[i + 1] = h[n][i]
        /\ Len(d) = e + 2
    BY <1>3, <2>3, <2>4
  <2> HIDE DEF a, b, c, e
  <2>5. ASSUME NEW i \in 1..b PROVE d[(2 + a) + i - 1] = parts[k][i]
    <3>1. a + i \in 1..c /\ a + i \in 1..e
      BY <2>6
    <3>2. (2 + a) + i - 1 = (a + i) + 1
      BY <2>6
    <3>3. d[(a + i) + 1] = parts[k][i]
      BY <2>7, <3>1
    <3> QED
      BY <3>2, <3>3
  <2>8. 2 + c = (2 + a) + b /\ 2 + c <= Len(d)
    BY <2>6, <2>7
  <2>9. Stands(parts[k], d, 2 + a)
    BY <2>5 DEF Stands, b
  <2> QED
    BY <2>6, <2>8, <2>9 DEF a, b, c
<1>5. Len(d) = Len(h[n]) + 2 /\ d[Len(d)] = 34
  BY <1>3
<1>6. Placed(d, h, parts, n)
  BY <1>3, <1>4, <1>5 DEF Placed
<1> QED
  BY <1>6 DEF d

LEMMA ByteMove ==
  ASSUME NEW d, NEW f, NEW g, Tables(f, g, d), NEW p \in Int, NEW c \in Text!Byte,
         Stands(Text!escaped(c), d, p), Inside(p, Len(Text!escaped(c)), Len(d))
  PROVE  /\ f[p] = f[p + Len(Text!escaped(c))]
         /\ g[p] = Consed(<<c>>, g[p + Len(Text!escaped(c))])
<1> DEFINE e == Text!escaped(c)
<1>1. \A i \in 1..Len(e) : d[p + i - 1] = e[i]
  BY DEF Stands
<1>2. p + 1 - 1 = p /\ p + 2 - 1 = p + 1
  OBVIOUS
<1>3. CASE c \in {34, 92} \cup DOMAIN Text!Letter
  <2> DEFINE x == IF c \in {34, 92} THEN c ELSE Text!Letter[c]
  <2>1. e = <<92, x>>
    BY <1>3, EscapedIs
  <2> HIDE DEF e, x
  <2>2. Len(e) = 2 /\ 1 \in 1..Len(e) /\ 2 \in 1..Len(e) /\ e[1] = 92 /\ e[2] = x
    BY <2>1
  <2>3. d[p] = 92 /\ d[p + 1] = x
    BY <1>1, <1>2, <2>2
  <2>4. \/ c \in {34, 92} /\ d[p + 1] = c
        \/ c \in DOMAIN Text!Letter /\ d[p + 1] = Text!Letter[c]
    BY <1>3, <2>3 DEF x
  <2>5. Inside(p, 2, Len(d))
    BY <2>2 DEF e
  <2>6. f[p] = f[p + 2] /\ g[p] = Consed(<<c>>, g[p + 2])
    BY <2>3, <2>4, <2>5, ShortMove
  <2> QED
    BY <2>2, <2>6 DEF e
<1>4. CASE c \notin {34, 92} \cup DOMAIN Text!Letter /\ c \notin 0..31
  <2>1. e = <<c>>
    BY <1>4, EscapedIs
  <2> HIDE DEF e
  <2>2. Len(e) = 1 /\ 1 \in 1..Len(e) /\ e[1] = c
    BY <2>1
  <2>3. d[p] = c
    BY <1>1, <1>2, <2>2
  <2>4. Inside(p, 1, Len(d)) /\ Plain(d[p])
    BY <1>4, <2>2, <2>3 DEF e, Plain
  <2>5. f[p] = f[p + 1] /\ g[p] = Consed(<<d[p]>>, g[p + 1])
    BY <2>4, PlainMove
  <2> QED
    BY <2>2, <2>3, <2>5 DEF e
<1>5. CASE c \notin {34, 92} \cup DOMAIN Text!Letter /\ c \in 0..31
  <2>1. e = Text!UnicodeEscape(c) /\ c \in Int /\ c <= 127
    BY <1>5, EscapedIs
  <2>2. c \in CodeUnit /\ c \notin HighHalf
    <3>1. c \in Int /\ c >= 0 /\ c <= 31
      BY <1>5
    <3>2. \A x \in Int : x >= 0 /\ x <= 31 => x \in CodeUnit
      BY DEF CodeUnit
    <3>3. \A x \in Int : x <= 31 => x \notin HighHalf
      BY SMT DEF HighHalf
    <3> QED
      BY <3>1, <3>2, <3>3
  <2>3. Len(e) = 6 /\ e[1] = 92 /\ e[2] = 117 /\ \A k \in 1..4 : e[2 + k] = HexOf(c)[k]
    BY <2>1, UnicodeEscapeIs
  <2> HIDE DEF e
  <2>4. EscapeAt(d, p, c)
    <3>1. 1 \in 1..Len(e) /\ 2 \in 1..Len(e) /\ \A k \in 1..4 : 2 + k \in 1..Len(e)
      BY <2>3
    <3>2. \A k \in 1..4 : p + (2 + k) - 1 = p + 1 + k
      OBVIOUS
    <3>3. d[p] = 92 /\ d[p + 1] = 117
      BY <1>1, <1>2, <2>3, <3>1
    <3>4. \A k \in 1..4 : d[p + 1 + k] = HexOf(c)[k]
      BY <1>1, <2>3, <3>1, <3>2
    <3> QED
      BY <3>3, <3>4 DEF EscapeAt
  <2>5. Inside(p, 6, Len(d))
    BY <2>3 DEF e
  <2>6. f[p] = f[p + 6] /\ g[p] = Consed(Text!codePointToUTF8(c), g[p + 6])
    BY <2>2, <2>4, <2>5, UnicodeMove
  <2>7. Text!codePointToUTF8(c) = <<c>>
    BY <2>1 DEF Text!codePointToUTF8
  <2> QED
    BY <2>3, <2>6, <2>7 DEF e
<1> QED
  BY <1>3, <1>4, <1>5

(* One token that is the whole document.                                   *)
LEMMA WholeToken ==
  ASSUME NEW d \in Seq(Int), NEW type, Text!readToken(d, 1) = Text!Token(type, 1, Len(d) + 1)
  PROVE  /\ type = "Number" => DecodeOf(d) = Text!decodeNumber(d)
         /\ type = "String" => DecodeOf(d) = Text!decodeString(d)
<1> DEFINE token == Text!readToken(d, 1)
<1>1. token.type_ = type /\ token.start_ = 1 /\ token.end_ = Len(d) + 1
  BY DEF Text!Token
<1>2. SubSeq(d, 1, (Len(d) + 1) - 1) = d
  OBVIOUS
<1>3. DecodeOf(d) =
        CASE token.type_ = "Number" -> Text!decodeNumber(SubSeq(d, token.start_, token.end_ - 1))
          [] token.type_ = "String" -> Text!decodeString(SubSeq(d, token.start_, token.end_ - 1))
          [] token.type_ \notin {"Number", "String"} -> Text!Error
  BY DEF DecodeOf
<1> HIDE DEF token
<1>4. SubSeq(d, token.start_, token.end_ - 1) = d
  BY <1>1, <1>2
<1>5. type = "Number" => DecodeOf(d) = Text!decodeNumber(SubSeq(d, token.start_, token.end_ - 1))
  BY <1>1, <1>3
<1>6. type = "String" => DecodeOf(d) = Text!decodeString(SubSeq(d, token.start_, token.end_ - 1))
  BY <1>1, <1>3
<1> QED
  BY <1>4, <1>5, <1>6

LEMMA SkipsNothing ==
  ASSUME NEW d \in Seq(Int), d # << >>, d[1] \notin {32, 9, 13, 10}
  PROVE  Text!skipSpaces(d, 1) = 1
<1> DEFINE n == Len(d)
           Stops == {j \in 1..n : d[j] \notin {Text!SP, Text!TAB, Text!CR, Text!LF}}
<1>1. n \in Nat /\ 1 <= n /\ 1 \in 1..n
  OBVIOUS
<1>2. 1 \in Stops
  BY <1>1 DEF Text!SP, Text!TAB, Text!CR, Text!LF
<1>3. IsFirst(1, Stops, n)
  BY <1>1, <1>2 DEF IsFirst
<1>4. Text!Min(Stops \cup {n + 1}) = 1
  BY <1>3, FirstIs
<1> QED
  BY <1>4 DEF Stops, Text!skipSpaces, Text!FirstFrom, Text!end

LEMMA StringToken ==
  ASSUME NEW d \in Seq(Int), d # << >>, d[1] = 34
  PROVE  Text!readToken(d, 1) = Text!Checked("String", 1, Text!readString(d, 2))
<1>1. Text!skipSpaces(d, 1) = 1
  BY SkipsNothing
<1>2. Text!Next_(d, 1) = 34 /\ Text!After(d, 1) = 2
  <2>1. 1 \in 1..Len(d) /\ 1 + 1 = 2
    OBVIOUS
  <2> QED
    BY <2>1, AfterIs
<1>3. 34 \notin DOMAIN Text!Structural /\ 34 \notin DOMAIN Text!Words /\ Text!QUOTE = 34
  BY FirstBytes DEF Text!QUOTE
<1>4. ASSUME NEW c, c = 34, Text!Next_(d, Text!skipSpaces(d, 1)) = c
      PROVE  Text!readToken(d, 1) = Text!Checked("String", Text!skipSpaces(d, 1), Text!readString(d, Text!After(d, Text!skipSpaces(d, 1))))
  <2>1. c \notin DOMAIN Text!Structural /\ c \notin DOMAIN Text!Words /\ c = Text!QUOTE
    BY <1>3, <1>4
  <2>2. c # Text!SLASH /\ c \notin Text!DIGITS \cup {Text!MINUS}
    BY <1>4 DEF Text!SLASH, Text!DIGITS, Text!MINUS
  <2> QED
    BY <1>4, <2>1, <2>2 DEF Text!readToken
<1> QED
  BY <1>1, <1>2, <1>4

(* The string that is found is the whole document.                         *)
LEMMA QuotedDecodes ==
  ASSUME NEW d, NEW f, NEW g, Tables(f, g, d), Len(d) >= 1, d[1] = 34,
         Text!readString(d, 2) = f[2], f[2] = Text!Found(TRUE, Len(d) + 1), Text!decodeString(d) = g[2]
  PROVE  DecodeOf(d) = g[2]
<1>1. d \in Seq(Int) /\ d # << >>
  BY DEF Tables
<1>2. Text!readToken(d, 1) = Text!Checked("String", 1, Text!Found(TRUE, Len(d) + 1))
  BY <1>1, StringToken
<1>3. Text!readToken(d, 1) = Text!Token("String", 1, Len(d) + 1)
  BY <1>2 DEF Text!Checked, Text!Found
<1> QED
  BY <1>1, <1>3, WholeToken

LEMMA TablesExist ==
  ASSUME NEW d \in Seq(Int), Len(d) >= 2
  PROVE  \E f, g : Tables(f, g, d) /\ Text!readString(d, 2) = f[2] /\ Text!decodeString(d) = g[2]
<1>1. PICK f : ReadsFrom(f, d) /\ Text!readString(d, 2) = f[2]
  <2>1. Len(d) >= 1
    OBVIOUS
  <2> QED
    BY <2>1, ReadStringIs
<1>2. PICK g : DecodesFrom(g, d) /\ Text!decodeString(d) = g[2]
  BY DecodeStringIs
<1> QED
  BY <1>1, <1>2 DEF Tables

LEMMA AtTheEnd ==
  ASSUME NEW d, NEW f, NEW g, Tables(f, g, d), Len(d) >= 2, d[Len(d)] = 34
  PROVE  f[Len(d)] = Text!Found(TRUE, Len(d) + 1) /\ g[Len(d)] = Text!String(<< >>)
<1>1. Len(d) \in 2..Len(d) /\ d[Len(d)] # 92
  BY DEF Tables
<1> QED
  BY <1>1 DEF Tables, ReadsFrom, DecodesFrom

LEMMA ConsedString ==
  ASSUME NEW bytes, NEW rest
  PROVE  Consed(bytes, Text!String(rest)) = Text!String(bytes \o rest)
<1>1. Text!String(rest).value = rest /\ Text!String(rest) # Text!Error
  BY DEF Text!String, Text!Error
<1> QED
  BY <1>1 DEF Consed

LEMMA RestOf ==
  ASSUME NEW s \in Seq(Text!Byte), NEW k \in 1..Len(s)
  PROVE  <<s[k]>> \o SubSeq(s, k + 1, Len(s)) = SubSeq(s, (k - 1) + 1, Len(s))
OBVIOUS

(* A string is written so that it is found again and read back as it was.  *)
LEMMA StringBack ==
  ASSUME NEW s \in Seq(Text!Byte)
  PROVE  DecodeOf(Text!valueToQuotedStringN(s)) = Text!String(s)
<1> DEFINE n == Len(s)
           parts == Parts(s)
           d == Text!valueToQuotedStringN(s)
<1>1. PICK h : Concatenates(h, parts, n) /\ d = Text!Quoted(h[n])
  BY QuotedIs
<1> DEFINE o(k) == 2 + Len(h[k])
<1>2. /\ n \in Nat /\ \A k \in 1..n : parts[k] = Text!escaped(s[k]) /\ s[k] \in Text!Byte /\ parts[k] \in Seq(Int)
  BY QuotedIs, EscapedIs
<1>3. h[0] = << >> /\ n \in 0..n /\ h[n] \in Seq(Int)
  BY <1>1, <1>2 DEF Concatenates, Sequences
<1> HIDE DEF parts, d, n
<1>4. /\ d \in Seq(Int) /\ Len(d) = Len(h[n]) + 2 /\ d[1] = 34 /\ d[Len(d)] = 34
      /\ \A k \in 1..n : /\ 2 + Len(h[k]) = (2 + Len(h[k - 1])) + Len(parts[k]) /\ 2 + Len(h[k]) <= Len(d)
                         /\ Len(h[k - 1]) \in Nat /\ Len(parts[k]) \in Nat
                         /\ Stands(parts[k], d, 2 + Len(h[k - 1]))
  <2>1. n \in Nat /\ Concatenates(h, parts, n) /\ d = Text!Quoted(h[n])
    BY <1>1, <1>2
  <2>2. AreSequences(parts, n)
    BY <1>2 DEF AreSequences
  <2>3. Placed(d, h, parts, n)
    BY <2>1, <2>2, PartStands
  <2> QED
    BY <2>3 DEF Placed
<1>5. o(0) = 2 /\ o(n) = Len(d) /\ Len(d) >= 2 /\ Len(d) \in Int
  BY <1>3, <1>4
<1>6. PICK f, g : Tables(f, g, d) /\ Text!readString(d, 2) = f[2] /\ Text!decodeString(d) = g[2]
  BY <1>4, <1>5, TablesExist
<1> DEFINE Good(k) == f[o(k)] = Text!Found(TRUE, Len(d) + 1) /\ g[o(k)] = Text!String(SubSeq(s, k + 1, n))
           K == {m \in Nat : m <= n => Good(n - m)}
<1>7. 0 \in K
  <2>1. f[Len(d)] = Text!Found(TRUE, Len(d) + 1) /\ g[Len(d)] = Text!String(<< >>)
    BY <1>4, <1>5, <1>6, AtTheEnd
  <2>2. SubSeq(s, n + 1, n) = << >> /\ n - 0 = n
    BY <1>2 DEF n
  <2> QED
    BY <1>5, <2>1, <2>2
<1>8. ASSUME NEW k \in 1..n, Good(k) PROVE Good(k - 1)
  <2>1. /\ o(k) = o(k - 1) + Len(parts[k]) /\ o(k) <= Len(d) /\ Len(h[k - 1]) \in Nat /\ Len(parts[k]) \in Nat
        /\ Stands(parts[k], d, o(k - 1)) /\ parts[k] = Text!escaped(s[k]) /\ s[k] \in Text!Byte
    BY <1>2, <1>4
  <2>2. o(k - 1) \in Int /\ Inside(o(k - 1), Len(parts[k]), Len(d))
    <3>1. \A a, b, c \in Int : 0 <= a /\ 0 <= b /\ (2 + a) + b <= c => 2 + a \in Int /\ Inside(2 + a, b, c)
      BY DEF Inside
    <3>2. Len(h[k - 1]) \in Int /\ Len(h[k - 1]) >= 0 /\ Len(parts[k]) \in Int /\ Len(parts[k]) >= 0
      BY <2>1
    <3>3. (2 + Len(h[k - 1])) + Len(parts[k]) <= Len(d)
      BY <2>1
    <3> QED
      BY <1>5, <3>1, <3>2, <3>3
  <2> HIDE DEF o
  <2>3. f[o(k - 1)] = f[o(k)] /\ g[o(k - 1)] = Consed(<<s[k]>>, g[o(k)])
    BY <1>6, <2>1, <2>2, ByteMove
  <2>4. g[o(k - 1)] = Text!String(<<s[k]>> \o SubSeq(s, k + 1, n))
    BY <1>8, <2>3, ConsedString
  <2>5. <<s[k]>> \o SubSeq(s, k + 1, n) = SubSeq(s, (k - 1) + 1, n)
    BY RestOf DEF n
  <2> QED
    BY <1>8, <2>3, <2>4, <2>5
<1>9. ASSUME NEW m \in Nat, m \in K PROVE m + 1 \in K
  <2>0. SUFFICES ASSUME m + 1 <= n PROVE Good(n - (m + 1))
    <3> HIDE DEF Good
    <3> QED
      BY <1>9
  <2>1. n - m \in 1..n /\ (n - m) - 1 = n - (m + 1) /\ m <= n
    BY <1>2, <2>0
  <2>2. Good(n - m)
    BY <1>9, <2>1
  <2> HIDE DEF Good
  <2>3. Good((n - m) - 1)
    BY <1>8, <2>1, <2>2
  <2> QED
    BY <2>1, <2>3
<1>10. Good(0)
  <2>1. n \in K
    <3> HIDE DEF K
    <3> QED
      BY <1>2, <1>7, <1>9, SetInduction
  <2>2. n <= n /\ n - n = 0
    BY <1>2
  <2> HIDE DEF Good
  <2> QED
    BY <2>1, <2>2
<1>11. f[2] = Text!Found(TRUE, Len(d) + 1) /\ g[2] = Text!String(SubSeq(s, 0 + 1, n))
  BY <1>5, <1>10
<1>12. SubSeq(s, 0 + 1, n) = s
  BY DEF n
<1>13. DecodeOf(d) = g[2]
  <2>1. Len(d) >= 1 /\ d[1] = 34
    BY <1>4, <1>5
  <2>2. f[2] = Text!Found(TRUE, Len(d) + 1)
    BY <1>11
  <2> QED
    BY <1>6, <2>1, <2>2, QuotedDecodes
<1> QED
  BY <1>11, <1>12, <1>13 DEF d

(* An integer is written so that it is read back.                          *)
LEMMA IntegerBack ==
  ASSUME Text!TextAssumption, NEW k \in Text!minLargestInt..Text!maxLargestUInt
  PROVE  DecodeOf(Text!valueToString(k)) = Text!Number(IF k <= maxInt THEN "int" ELSE "uint", k)
<1> DEFINE t == Text!valueToString(k)
<1>1. IsNumber(t) /\ Signed(t) = k
  BY ValueIsNumber
<1> HIDE DEF t
<1>2. t \in Seq(Int) /\ t # << >>
  BY <1>1 DEF IsNumber
<1>3. Text!readToken(t, 1) = Text!Token("Number", 1, Len(t) + 1)
  BY <1>1, <1>2, NumberIs, NumberToken
<1>4. DecodeOf(t) = Text!decodeNumber(t)
  BY <1>2, <1>3, WholeToken
<1>5. Text!decodeNumber(t) = Number(k)
  BY <1>1, DecodesNumber
<1> QED
  BY <1>4, <1>5 DEF Number, t

-------------------------------------------------------------------------------
(* Code points. *)

(* An escape stands in a string from i on.                                 *)
Holds(e, i, n) == \A k \in 1..6 : e[i + k] = Text!UnicodeEscape(n)[k]

LEMMA EscapeIn ==
  ASSUME NEW e \in Seq(Int), NEW n \in CodeUnit, NEW i \in Nat, i + 6 <= Len(e), Holds(e, i, n)
  PROVE  EscapeAt(Text!Quoted(e), 2 + i, n)
<1> DEFINE d == Text!Quoted(e)
           u == Text!UnicodeEscape(n)
<1>1. \A k \in 1..Len(e) : d[k + 1] = e[k]
  BY QuotedSequence
<1>2. u[1] = 92 /\ u[2] = 117 /\ \A k \in 1..4 : u[2 + k] = HexOf(n)[k]
  <2>1. n \in Int
    BY CodeUnitTyped
  <2> QED
    BY <2>1, UnicodeEscapeIs
<1>3. \A k \in 1..6 : e[i + k] = u[k]
  BY DEF Holds
<1> HIDE DEF d, u
<1>4. \A k \in 1..6 : d[i + k + 1] = u[k]
  <2>1. \A k \in 1..6 : i + k \in 1..Len(e)
    OBVIOUS
  <2> QED
    BY <1>1, <1>3, <2>1
<1>5. d[2 + i] = 92 /\ d[2 + i + 1] = 117
  <2>1. i + 1 + 1 = 2 + i /\ i + 2 + 1 = 2 + i + 1 /\ 1 \in 1..6 /\ 2 \in 1..6
    OBVIOUS
  <2>2. d[i + 1 + 1] = u[1] /\ d[i + 2 + 1] = u[2]
    BY <1>4, <2>1
  <2> QED
    BY <1>2, <2>1, <2>2
<1>6. ASSUME NEW k \in 1..4 PROVE d[2 + i + 1 + k] = HexOf(n)[k]
  <2>1. 2 + k \in 1..6 /\ i + (2 + k) + 1 = 2 + i + 1 + k
    OBVIOUS
  <2>2. d[i + (2 + k) + 1] = u[2 + k]
    BY <1>4, <2>1
  <2> QED
    BY <1>2, <2>1, <2>2
<1> QED
  BY <1>5, <1>6 DEF EscapeAt, d

LEMMA UnitIs ==
  ASSUME NEW n \in CodeUnit
  PROVE  Text!UnicodeEscape(n) \in Seq(Int) /\ Len(Text!UnicodeEscape(n)) = 6
<1>1. n \in Int
  BY CodeUnitTyped
<1> QED
  BY <1>1, UnicodeEscapeIs

(* What is found in a string of one code point.                            *)
LEMMA OneDecodes ==
  ASSUME NEW d, NEW f, NEW g, Tables(f, g, d), Len(d) >= 2, d[1] = 34, d[Len(d)] = 34, NEW bytes \in Seq(Int),
         Text!readString(d, 2) = f[2], Text!decodeString(d) = g[2],
         f[2] = f[Len(d)], g[2] = Consed(bytes, g[Len(d)])
  PROVE  DecodeOf(d) = Text!String(bytes)
<1>1. f[2] = Text!Found(TRUE, Len(d) + 1) /\ g[Len(d)] = Text!String(<< >>)
  BY AtTheEnd
<1>2. DecodeOf(d) = g[2]
  <2>1. Len(d) >= 1
    <3>1. Len(d) \in Int
      BY DEF Tables
    <3> QED
      BY <3>1
  <2> QED
    BY <1>1, <2>1, QuotedDecodes
<1>3. Consed(bytes, Text!String(<< >>)) = Text!String(bytes \o << >>)
  BY ConsedString
<1>4. bytes \o << >> = bytes
  OBVIOUS
<1> QED
  BY <1>1, <1>2, <1>3, <1>4

LEMMA UnitBack ==
  ASSUME NEW n \in CodeUnit, n \notin HighHalf
  PROVE  DecodeOf(Text!Quoted(Text!UnicodeEscape(n))) = Text!String(Text!codePointToUTF8(n))
<1> DEFINE e == Text!UnicodeEscape(n)
           d == Text!Quoted(e)
<1>1. e \in Seq(Int) /\ Len(e) = 6
  BY UnitIs
<1>2. d \in Seq(Int) /\ Len(d) = 8 /\ d[1] = 34 /\ d[8] = 34
  <2> HIDE DEF e
  <2>1. d \in Seq(Int) /\ Len(d) = Len(e) + 2 /\ d[1] = 34 /\ d[Len(e) + 2] = 34
    BY <1>1, QuotedSequence
  <2> QED
    BY <1>1, <2>1
<1>3. EscapeAt(d, 2, n)
  <2>1. \A k \in 1..6 : e[0 + k] = Text!UnicodeEscape(n)[k]
    OBVIOUS
  <2>2. Holds(e, 0, n)
    BY <2>1 DEF Holds
  <2> HIDE DEF e
  <2>3. ASSUME NEW i \in Nat, i = 0 PROVE EscapeAt(d, 2 + i, n)
    <3>1. i + 6 <= Len(e) /\ Holds(e, i, n)
      BY <1>1, <2>2, <2>3
    <3> QED
      BY <1>1, <3>1, EscapeIn
  <2>4. 0 \in Nat /\ 2 + 0 = 2
    OBVIOUS
  <2> QED
    BY <2>3, <2>4
<1> HIDE DEF d
<1>4. PICK f, g : Tables(f, g, d) /\ Text!readString(d, 2) = f[2] /\ Text!decodeString(d) = g[2]
  <2>1. d \in Seq(Int) /\ Len(d) >= 2
    BY <1>2
  <2> QED
    BY <2>1, TablesExist
<1>5. ASSUME NEW p \in Int, p = 2
      PROVE  f[p] = f[8] /\ g[p] = Consed(Text!codePointToUTF8(n), g[8])
  <2>1. Inside(p, 6, Len(d)) /\ EscapeAt(d, p, n) /\ p + 6 = 8
    BY <1>2, <1>3, <1>5 DEF Inside
  <2> QED
    BY <1>4, <2>1, UnicodeMove
<1>6. f[2] = f[Len(d)] /\ g[2] = Consed(Text!codePointToUTF8(n), g[Len(d)])
  BY <1>2, <1>5
<1>7. Text!codePointToUTF8(n) \in Seq(Int) /\ Len(d) >= 2 /\ d[Len(d)] = 34
  BY <1>2, CodeUnitTyped, EncodedTyped
<1>8. DecodeOf(d) = Text!String(Text!codePointToUTF8(n))
  BY <1>2, <1>4, <1>6, <1>7, OneDecodes
<1> QED
  BY <1>8 DEF d

LEMMA PairBack ==
  ASSUME NEW n \in CodeUnit, n \in HighHalf, NEW m \in CodeUnit
  PROVE  DecodeOf(Text!Quoted(Text!UnicodeEscape(n) \o Text!UnicodeEscape(m))) =
           Text!String(Text!codePointToUTF8(Joined(n, m)))
<1> DEFINE u == Text!UnicodeEscape(n)
           t == Text!UnicodeEscape(m)
           e == u \o t
           d == Text!Quoted(e)
<1>1. u \in Seq(Int) /\ Len(u) = 6 /\ t \in Seq(Int) /\ Len(t) = 6
  BY UnitIs
<1>2. /\ e \in Seq(Int) /\ Len(e) = 12
      /\ \A k \in 1..6 : e[0 + k] = u[k]
      /\ \A k \in 1..6 : e[6 + k] = t[k]
  <2> HIDE DEF u, t
  <2>1. /\ e \in Seq(Int) /\ Len(e) = Len(u) + Len(t)
        /\ \A k \in 1..Len(u) : e[k] = u[k]
        /\ \A k \in 1..Len(t) : e[Len(u) + k] = t[k]
    BY <1>1, Concatenated
  <2> HIDE DEF e
  <2>2. Len(e) = 12 /\ (\A k \in 1..6 : e[k] = u[k]) /\ \A k \in 1..6 : e[6 + k] = t[k]
    BY <1>1, <2>1
  <2>3. \A k \in 1..6 : 0 + k = k
    OBVIOUS
  <2> QED
    BY <2>1, <2>2, <2>3
<1>3. Holds(e, 0, n) /\ Holds(e, 6, m)
  BY <1>2 DEF Holds
<1> HIDE DEF e
<1>4. d \in Seq(Int) /\ Len(d) = 14 /\ d[1] = 34 /\ d[14] = 34
  <2>1. d \in Seq(Int) /\ Len(d) = Len(e) + 2 /\ d[1] = 34 /\ d[Len(e) + 2] = 34
    BY <1>2, QuotedSequence
  <2> QED
    BY <1>2, <2>1
<1>5. EscapeAt(d, 2, n) /\ EscapeAt(d, 8, m)
  <2>1. ASSUME NEW i \in Nat, i = 0 \/ i = 6, NEW x \in CodeUnit, Holds(e, i, x) PROVE EscapeAt(d, 2 + i, x)
    <3>1. i + 6 <= Len(e)
      BY <1>2, <2>1
    <3> QED
      BY <1>2, <2>1, <3>1, EscapeIn
  <2>2. 0 \in Nat /\ 2 + 0 = 2 /\ 6 \in Nat /\ 2 + 6 = 8
    OBVIOUS
  <2>3. EscapeAt(d, 2 + 0, n) /\ EscapeAt(d, 2 + 6, m)
    BY <1>3, <2>1, <2>2
  <2> QED
    BY <2>2, <2>3
<1> HIDE DEF d
<1>6. PICK f, g : Tables(f, g, d) /\ Text!readString(d, 2) = f[2] /\ Text!decodeString(d) = g[2]
  <2>1. d \in Seq(Int) /\ Len(d) >= 2
    BY <1>4
  <2> QED
    BY <2>1, TablesExist
<1>7. ASSUME NEW p \in Int, p = 2
      PROVE  f[p] = f[14] /\ g[p] = Consed(Text!codePointToUTF8(Joined(n, m)), g[14])
  <2>1. Inside(p, 12, Len(d)) /\ EscapeAt(d, p, n) /\ EscapeAt(d, p + 6, m) /\ p + 12 = 14
    BY <1>4, <1>5, <1>7 DEF Inside
  <2> QED
    BY <1>6, <2>1, PairMove
<1> DEFINE cp == Joined(n, m)
<1>8. cp \in Int
  BY CodeUnitTyped, HalvesTyped DEF Joined
<1> HIDE DEF cp
<1>9. f[2] = f[Len(d)] /\ g[2] = Consed(Text!codePointToUTF8(cp), g[Len(d)])
  BY <1>4, <1>7 DEF cp
<1>10. Text!codePointToUTF8(cp) \in Seq(Int) /\ Len(d) >= 2 /\ d[Len(d)] = 34
  BY <1>4, <1>8, EncodedTyped
<1>11. DecodeOf(d) = Text!String(Text!codePointToUTF8(cp))
  BY <1>4, <1>6, <1>9, <1>10, OneDecodes
<1> QED
  BY <1>11 DEF d, e, cp

(* Six bits a byte.                                                        *)
LEMMA SixSum ==
  ASSUME NEW s \in Seq(Int)
  PROVE  /\ Len(s) = 0 => Text!Positional(s, 64, 128) = 0
         /\ Len(s) = 1 => Text!Positional(s, 64, 128) = s[1] - 128
         /\ Len(s) = 2 => Text!Positional(s, 64, 128) = ((s[1] - 128) * 64) + (s[2] - 128)
         /\ Len(s) = 3 => Text!Positional(s, 64, 128) = ((((s[1] - 128) * 64) + (s[2] - 128)) * 64) + (s[3] - 128)
<1>1. ASSUME NEW base \in Int, base = 64, NEW zero \in Int, zero = 128
      PROVE  /\ Len(s) = 0 => Text!Positional(s, base, zero) = 0
             /\ Len(s) = 1 => Text!Positional(s, base, zero) = s[1] - 128
             /\ Len(s) = 2 => Text!Positional(s, base, zero) = ((s[1] - 128) * 64) + (s[2] - 128)
             /\ Len(s) = 3 => Text!Positional(s, base, zero) = ((((s[1] - 128) * 64) + (s[2] - 128)) * 64) + (s[3] - 128)
  <2>1. PICK f \in [0..Len(s) -> Int] :
           /\ f[0] = 0 /\ Text!Positional(s, base, zero) = f[Len(s)]
           /\ \A k \in 1..Len(s) : f[k] = (f[k - 1] * base) + (s[k] - zero)
    BY PositionalIs
  <2>2. \A k \in 1..Len(s) : f[k] = (f[k - 1] * 64) + (s[k] - 128)
    BY <1>1, <2>1
  <2>3. \A i \in 1..Len(s) : s[i] \in Int
    BY ElementsTyped
  <2>4. 1 - 1 = 0 /\ 2 - 1 = 1 /\ 3 - 1 = 2
    OBVIOUS
  <2>5. 1 \in 1..Len(s) => f[1] = s[1] - 128 /\ s[1] \in Int
    <3>1. 1 \in 1..Len(s) => f[1] = (f[1 - 1] * 64) + (s[1] - 128) /\ s[1] \in Int
      BY <2>2, <2>3
    <3>2. \A x \in Int : (0 * 64) + (x - 128) = x - 128
      OBVIOUS
    <3> QED
      BY <2>1, <2>4, <3>1, <3>2
  <2>6. 2 \in 1..Len(s) => f[2] = (f[1] * 64) + (s[2] - 128)
    <3>1. 2 \in 1..Len(s) => f[2] = (f[2 - 1] * 64) + (s[2] - 128)
      BY <2>2
    <3> QED
      BY <2>4, <3>1
  <2>7. 3 \in 1..Len(s) => f[3] = (f[2] * 64) + (s[3] - 128)
    <3>1. 3 \in 1..Len(s) => f[3] = (f[3 - 1] * 64) + (s[3] - 128)
      BY <2>2
    <3> QED
      BY <2>4, <3>1
  <2>8. /\ Len(s) = 1 => 1 \in 1..Len(s)
        /\ Len(s) = 2 => 1 \in 1..Len(s) /\ 2 \in 1..Len(s)
        /\ Len(s) = 3 => 1 \in 1..Len(s) /\ 2 \in 1..Len(s) /\ 3 \in 1..Len(s)
    OBVIOUS
  <2> HIDE <2>2, <2>3
  <2> QED
    BY <2>1, <2>5, <2>6, <2>7, <2>8, ZenonT(60)
<1> QED
  BY <1>1

Follow(x) == x \in Int /\ x >= 128 /\ x <= 191

LEMMA FollowIs ==
  ASSUME NEW x, Follow(x)
  PROVE  x \in 128..191 /\ x \in Int
BY DEF Follow

Followers(s, n) == \A i \in 2..n : s[i] \in 128..191

LEMMA FollowersAre ==
  ASSUME NEW s
  PROVE  /\ Follow(s[2]) => Followers(s, 2)
         /\ Follow(s[2]) /\ Follow(s[3]) => Followers(s, 3)
         /\ Follow(s[2]) /\ Follow(s[3]) /\ Follow(s[4]) => Followers(s, 4)
<1>1. ASSUME NEW i PROVE Follow(s[i]) => s[i] \in 128..191
  BY FollowIs
<1>2. (\A i \in 2..2 : i = 2) /\ (\A i \in 2..3 : i = 2 \/ i = 3) /\ (\A i \in 2..4 : i = 2 \/ i = 3 \/ i = 4)
  OBVIOUS
<1>3. ASSUME NEW n, \A i \in 2..n : Follow(s[i]) PROVE Followers(s, n)
  BY <1>1, <1>3 DEF Followers
<1>4. ASSUME Follow(s[2]) PROVE Followers(s, 2)
  <2>1. \A i \in 2..2 : Follow(s[i])
    BY <1>2, <1>4
  <2> QED
    BY <1>3, <2>1
<1>5. ASSUME Follow(s[2]), Follow(s[3]) PROVE Followers(s, 3)
  <2>1. \A i \in 2..3 : Follow(s[i])
    BY <1>2, <1>5
  <2> QED
    BY <1>3, <2>1
<1>6. ASSUME Follow(s[2]), Follow(s[3]), Follow(s[4]) PROVE Followers(s, 4)
  <2>1. \A i \in 2..4 : Follow(s[i])
    BY <1>2, <1>6
  <2> QED
    BY <1>3, <2>1
<1> QED
  BY <1>4, <1>5, <1>6

LEMMA Encodes1 ==
  ASSUME NEW cp \in Int, cp >= 0, cp < 128
  PROVE  Text!Encodes(<<cp>>, cp)
<1> DEFINE bytes == <<cp>>
<1>1. Len(bytes) = 1 /\ bytes[1] = cp /\ 2..Len(bytes) = {}
  OBVIOUS
<1> HIDE DEF bytes
<1>2. Text!Encodes(bytes, cp)
  BY <1>1 DEF Text!Encodes
<1> QED
  BY <1>2 DEF bytes

LEMMA Encodes2 ==
  ASSUME NEW a \in Int, NEW x, Follow(x), NEW cp \in Int, cp = ((a - 192) * 64) + (x - 128), cp > 127, cp <= 2047
  PROVE  Text!Encodes(<<a, x>>, cp)
<1> DEFINE bytes == <<a, x>>
           t == Tail(bytes)
<1>0. x \in 128..191 /\ x \in Int
  BY FollowIs
<1>1. /\ Len(bytes) = 2 /\ bytes[1] = a /\ bytes[2] = x
      /\ t \in Seq(Int) /\ Len(t) = 1 /\ t[1] = x
  BY <1>0
<1> HIDE DEF bytes
<1>2. \A i \in 2..Len(bytes) : bytes[i] \in 128..191
  <2>1. Follow(bytes[2])
    BY <1>1
  <2>2. Followers(bytes, 2)
    BY <2>1, FollowersAre
  <2>3. Followers(bytes, Len(bytes))
    BY <1>1, <2>2
  <2> QED
    BY <2>3 DEF Followers
<1> HIDE DEF t
<1>3. Text!Positional(t, 64, 128) = x - 128
  BY <1>1, SixSum
<1>4. cp >= 128 /\ cp < 2048
  OBVIOUS
<1>5. cp = ((bytes[1] - 192) * 64) + Text!Positional(Tail(bytes), 64, 128)
  BY <1>1, <1>3 DEF t
<1>6. Text!Encodes(bytes, cp)
  BY <1>1, <1>2, <1>4, <1>5 DEF Text!Encodes
<1> QED
  BY <1>6 DEF bytes

LEMMA Encodes3 ==
  ASSUME NEW a \in Int, NEW x, Follow(x), NEW y, Follow(y),
         NEW cp \in Int, cp = ((a - 224) * 4096) + (((x - 128) * 64) + (y - 128)), cp > 2047, cp <= 65535
  PROVE  Text!Encodes(<<a, x, y>>, cp)
<1> DEFINE bytes == <<a, x, y>>
           t == Tail(bytes)
<1>0. x \in 128..191 /\ x \in Int /\ y \in 128..191 /\ y \in Int
  BY FollowIs
<1>1. /\ Len(bytes) = 3 /\ bytes[1] = a /\ bytes[2] = x /\ bytes[3] = y
      /\ t \in Seq(Int) /\ Len(t) = 2 /\ t[1] = x /\ t[2] = y
  BY <1>0
<1> HIDE DEF bytes
<1>2. \A i \in 2..Len(bytes) : bytes[i] \in 128..191
  <2>1. Follow(bytes[2]) /\ Follow(bytes[3])
    BY <1>1
  <2>2. Followers(bytes, 3)
    BY <2>1, FollowersAre
  <2>3. Followers(bytes, Len(bytes))
    BY <1>1, <2>2
  <2> QED
    BY <2>3 DEF Followers
<1> HIDE DEF t
<1>3. Text!Positional(t, 64, 128) = ((x - 128) * 64) + (y - 128)
  BY <1>1, SixSum
<1>4. cp >= 2048 /\ cp < 65536
  OBVIOUS
<1>5. cp = ((bytes[1] - 224) * 4096) + Text!Positional(Tail(bytes), 64, 128)
  BY <1>1, <1>3 DEF t
<1>6. Text!Encodes(bytes, cp)
  BY <1>1, <1>2, <1>4, <1>5 DEF Text!Encodes
<1> QED
  BY <1>6 DEF bytes

LEMMA Encodes4 ==
  ASSUME NEW a \in Int, NEW x, Follow(x), NEW y, Follow(y), NEW z, Follow(z),
         NEW cp \in Int, cp = ((a - 240) * 262144) + (((((x - 128) * 64) + (y - 128)) * 64) + (z - 128)), cp >= 65536
  PROVE  Text!Encodes(<<a, x, y, z>>, cp)
<1> DEFINE bytes == <<a, x, y, z>>
           t == Tail(bytes)
<1>0. x \in 128..191 /\ x \in Int /\ y \in 128..191 /\ y \in Int /\ z \in 128..191 /\ z \in Int
  BY FollowIs
<1>1. /\ Len(bytes) = 4 /\ bytes[1] = a /\ bytes[2] = x /\ bytes[3] = y /\ bytes[4] = z
      /\ t \in Seq(Int) /\ Len(t) = 3 /\ t[1] = x /\ t[2] = y /\ t[3] = z
  BY <1>0
<1> HIDE DEF bytes
<1>2. \A i \in 2..Len(bytes) : bytes[i] \in 128..191
  <2>1. Follow(bytes[2]) /\ Follow(bytes[3]) /\ Follow(bytes[4])
    BY <1>1
  <2>2. Followers(bytes, 4)
    BY <2>1, FollowersAre
  <2>3. Followers(bytes, Len(bytes))
    BY <1>1, <2>2
  <2> QED
    BY <2>3 DEF Followers
<1> HIDE DEF t
<1>3. Text!Positional(t, 64, 128) = ((((x - 128) * 64) + (y - 128)) * 64) + (z - 128)
  BY <1>1, SixSum
<1>5. cp = ((bytes[1] - 240) * 262144) + Text!Positional(Tail(bytes), 64, 128)
  BY <1>1, <1>3 DEF t
<1>6. Text!Encodes(bytes, cp)
  BY <1>1, <1>2, <1>5 DEF Text!Encodes
<1> QED
  BY <1>6 DEF bytes

(* An integer, cut into parts of six bits.                                 *)
LEMMA Sixty ==
  ASSUME NEW q \in Int
  PROVE  /\ q \div 64 \in Int /\ q % 64 \in Int /\ q = ((q \div 64) * 64) + (q % 64)
         /\ Follow(Six(q)) /\ Six(q) - 128 = q % 64
<1>1. q \div 64 \in Int /\ q % 64 \in Int /\ q = ((q \div 64) * 64) + (q % 64)
  OBVIOUS
<1>2. q % 64 >= 0 /\ q % 64 <= 63
  OBVIOUS
<1> QED
  BY <1>1, <1>2 DEF Six, Follow

(* codePointToUTF8() encodes every code point, in the shortest form.       *)
LEMMA EncodesAll ==
  ASSUME NEW cp \in Int, cp >= 0, cp <= 1114111
  PROVE  Text!Encodes(Text!codePointToUTF8(cp), cp)
<1> DEFINE a == cp \div 64
           b == cp \div 4096
           c == cp \div 262144
           x == cp % 64
           y == a % 64
           z == b % 64
<1>1. a \in Int /\ b \in Int /\ c \in Int /\ a \div 64 = b /\ b \div 64 = c
  OBVIOUS
<1>2. /\ x \in Int /\ y \in Int /\ z \in Int
      /\ cp = (a * 64) + x /\ a = (b * 64) + y /\ b = (c * 64) + z
      /\ Follow(Six(cp)) /\ Six(cp) - 128 = x
      /\ Follow(Six(a)) /\ Six(a) - 128 = y
      /\ Follow(Six(b)) /\ Six(b) - 128 = z
  <2>1. x \in Int /\ cp = (a * 64) + x /\ Follow(Six(cp)) /\ Six(cp) - 128 = x
    BY Sixty
  <2>2. y \in Int /\ a = ((a \div 64) * 64) + y /\ Follow(Six(a)) /\ Six(a) - 128 = y
    BY <1>1, Sixty
  <2>3. z \in Int /\ b = ((b \div 64) * 64) + z /\ Follow(Six(b)) /\ Six(b) - 128 = z
    BY <1>1, Sixty
  <2> HIDE DEF a, b, c, x, y, z
  <2> QED
    BY <1>1, <2>1, <2>2, <2>3
<1>3. /\ cp <= 127 => Text!codePointToUTF8(cp) = <<cp>>
      /\ (cp > 127 /\ cp <= 2047) => Text!codePointToUTF8(cp) = <<192 + a, Six(cp)>>
      /\ (cp > 2047 /\ cp <= 65535) => Text!codePointToUTF8(cp) = <<224 + b, Six(a), Six(cp)>>
      /\ (cp > 65535 /\ cp <= 1114111) => Text!codePointToUTF8(cp) = <<240 + c, Six(b), Six(a), Six(cp)>>
  BY EncodedIs
<1> HIDE DEF a, b, c, x, y, z
<1>4. CASE cp <= 127
  <2>1. cp < 128
    BY <1>4
  <2> QED
    BY <1>3, <1>4, <2>1, Encodes1
<1>5. CASE cp > 127 /\ cp <= 2047
  <2>1. 192 + a \in Int /\ cp = (((192 + a) - 192) * 64) + (Six(cp) - 128)
    BY <1>1, <1>2
  <2>2. Text!Encodes(<<192 + a, Six(cp)>>, cp)
    BY <1>2, <1>5, <2>1, Encodes2
  <2> QED
    BY <1>3, <1>5, <2>2
<1>6. CASE cp > 2047 /\ cp <= 65535
  <2>1. 224 + b \in Int /\ cp = (((224 + b) - 224) * 4096) + (((Six(a) - 128) * 64) + (Six(cp) - 128))
    BY <1>1, <1>2
  <2>2. Text!Encodes(<<224 + b, Six(a), Six(cp)>>, cp)
    BY <1>2, <1>6, <2>1, Encodes3
  <2> QED
    BY <1>3, <1>6, <2>2
<1>7. CASE cp > 65535
  <2>1. 240 + c \in Int
         /\ cp = (((240 + c) - 240) * 262144) + (((((Six(b) - 128) * 64) + (Six(a) - 128)) * 64) + (Six(cp) - 128))
    BY <1>1, <1>2
  <2>3. cp >= 65536
    BY <1>7
  <2>2. Text!Encodes(<<240 + c, Six(b), Six(a), Six(cp)>>, cp)
    BY <1>2, <2>1, <2>3, Encodes4
  <2> QED
    BY <1>3, <1>7, <2>2
<1> QED
  BY <1>4, <1>5, <1>6, <1>7

(* The halves of a code point are put together again.                      *)
High(cp) == 55296 + (cp - 65536) \div 1024
Low(cp) == 56320 + ((cp - 65536) % 1024)

LEMMA Thousand ==
  ASSUME NEW r \in Int, r >= 0, r <= 1023
  PROVE  (55296 + r) % 1024 = r /\ (56320 + r) % 1024 = r
BY SMT

LEMMA HalvesJoin ==
  ASSUME NEW cp \in Int, cp >= 65536, cp <= 1114111
  PROVE  /\ High(cp) \in CodeUnit /\ High(cp) \in HighHalf /\ Low(cp) \in CodeUnit
         /\ Joined(High(cp), Low(cp)) = cp
<1> DEFINE x == cp - 65536
           q == x \div 1024
           r == x % 1024
<1>1. x \in Int /\ x >= 0 /\ x <= 1048575
  BY SMT
<1> HIDE DEF x
<1>2. q \in Int /\ q >= 0 /\ q <= 1023 /\ r \in Int /\ r >= 0 /\ r <= 1023 /\ x = (q * 1024) + r
  BY <1>1, SMT
<1> HIDE DEF q, r
<1>3. (55296 + q) % 1024 = q /\ (56320 + r) % 1024 = r
  BY <1>2, Thousand
<1>4. High(cp) = 55296 + q /\ Low(cp) = 56320 + r
  BY DEF High, Low, x, q, r
<1>5. 55296 + q \in CodeUnit /\ 56320 + r \in CodeUnit
  BY <1>2, SMT DEF CodeUnit
<1>6. 55296 + q \in HighHalf
  BY <1>2, SMT DEF HighHalf
<1>7. Joined(55296 + q, 56320 + r) = 65536 + (q * 1024) + r
  BY <1>3 DEF Joined
<1>8. 65536 + (q * 1024) + r = cp
  <2>1. x = cp - 65536
    BY DEF x
  <2> QED
    BY <1>2, <2>1, SMT
<1> QED
  BY <1>4, <1>5, <1>6, <1>7, <1>8

CodePoint(cp) == cp \in Int /\ cp >= 0 /\ cp <= 1114111 /\ cp \notin HighHalf

(* The escapes of any code point that is no half are decoded to its        *)
(* encoding.                                                               *)
LEMMA EscapesBack ==
  ASSUME NEW cp, CodePoint(cp)
  PROVE  DecodeOf(Text!Escapes(cp)) = Text!String(Text!codePointToUTF8(cp))
<1>1. cp \in Int /\ cp >= 0 /\ cp <= 1114111 /\ cp \notin HighHalf
  BY DEF CodePoint
<1>2. CASE cp < 65536
  <2>1. Text!Escapes(cp) = Text!Quoted(Text!UnicodeEscape(cp))
    BY <1>2 DEF Text!Escapes
  <2>2. cp \in CodeUnit
    BY <1>1, <1>2 DEF CodeUnit
  <2> QED
    BY <1>1, <2>1, <2>2, UnitBack
<1>3. CASE ~ (cp < 65536)
  <2>1. Text!Escapes(cp) = Text!Quoted(Text!UnicodeEscape(High(cp)) \o Text!UnicodeEscape(Low(cp)))
    BY <1>3 DEF Text!Escapes, High, Low
  <2>2. cp >= 65536
    BY <1>1, <1>3
  <2>3. /\ High(cp) \in CodeUnit /\ High(cp) \in HighHalf /\ Low(cp) \in CodeUnit
        /\ Joined(High(cp), Low(cp)) = cp
    BY <1>1, <2>2, HalvesJoin
  <2>4. DecodeOf(Text!Quoted(Text!UnicodeEscape(High(cp)) \o Text!UnicodeEscape(Low(cp)))) =
          Text!String(Text!codePointToUTF8(Joined(High(cp), Low(cp))))
    BY <2>3, PairBack
  <2> QED
    BY <2>1, <2>3, <2>4
<1> QED
  BY <1>2, <1>3

LEMMA CodePointsAre == \A cp \in Text!CodePoints : CodePoint(cp)
<1>1. \A cp \in Text!CodePoints : cp \in Int /\ cp >= 0 /\ cp <= 1114111 /\ (cp < 55296 \/ cp > 56319)
  BY SMT DEF Text!CodePoints
<1>2. \A cp \in Int : cp < 55296 \/ cp > 56319 => cp \notin HighHalf
  BY SMT DEF HighHalf
<1> QED
  BY <1>1, <1>2 DEF CodePoint

(* What was written is read back: integers, strings of any bytes, names up *)
(* to their first zero; and the escapes of a code point become its UTF-8   *)
(* encoding.                                                               *)
THEOREM WrittenIsReadBack ==
  ASSUME Text!TextAssumption
  PROVE  Text!Spec => []RoundTrip
<1>1. TextInv => Text!RoundTrip
  <2> SUFFICES ASSUME TextInv, Text!Done PROVE Text!RoundTrip
    BY DEF Text!RoundTrip
  <2>1. decoded = DecodeOf(document_) /\ IsWritten(written, document_)
    BY DEF TextInv, Text!Done
  <2>3. ASSUME NEW k \in Text!minLargestInt..Text!maxLargestUInt,
               written = [type |-> "integer", value |-> k], document_ = Text!valueToString(k)
        PROVE  /\ written.type = "integer"
               /\ decoded = Text!Number(IF written.value <= maxInt THEN "int" ELSE "uint", written.value)
    BY <2>1, <2>3, IntegerBack
  <2>4. ASSUME NEW s \in Seq(Text!Byte), written = [type |-> "string", value |-> s],
               document_ = Text!valueToQuotedStringN(s)
        PROVE  written.type = "string" /\ decoded = Text!String(written.value)
    BY <2>1, <2>4, StringBack
  <2>5. ASSUME NEW s \in Seq(Text!Byte), written = [type |-> "name", value |-> s],
               document_ = Text!valueToQuotedString(s)
        PROVE  written.type = "name" /\ decoded = Text!String(Text!CString(written.value))
    <3>1. Text!CString(s) \in Seq(Text!Byte) /\ document_ = Text!valueToQuotedStringN(Text!CString(s))
      BY <2>5, CStringTyped DEF Text!valueToQuotedString
    <3>2. decoded = Text!String(Text!CString(s))
      BY <2>1, <3>1, StringBack
    <3> QED
      BY <2>5, <3>2
  <2>6. \/ written = Text!Nothing
        \/ /\ written.type = "integer"
           /\ decoded = Text!Number(IF written.value <= maxInt THEN "int" ELSE "uint", written.value)
        \/ written.type = "string" /\ decoded = Text!String(written.value)
        \/ written.type = "name" /\ decoded = Text!String(Text!CString(written.value))
    BY <2>1, <2>3, <2>4, <2>5 DEF IsWritten
  <2>7. (CASE written.type = "integer" ->
               decoded = Text!Number(IF written.value <= maxInt THEN "int" ELSE "uint", written.value)
          [] written.type = "string" -> decoded = Text!String(written.value)
          [] written.type = "name" -> decoded = Text!String(Text!CString(written.value))
          [] written = Text!Nothing -> TRUE)
    <3>1. Text!Nothing.type = "nothing"
      BY DEF Text!Nothing
    <3> QED
      BY <2>6, <3>1
  <2>8. ASSUME NEW cp \in Text!CodePoints, document_ = Text!Escapes(cp)
        PROVE  decoded.type = "string" /\ Text!Encodes(decoded.value, cp)
    <3>1. CodePoint(cp)
      BY CodePointsAre
    <3>2. decoded = Text!String(Text!codePointToUTF8(cp))
      BY <2>1, <2>8, <3>1, EscapesBack
    <3>3. Text!Encodes(Text!codePointToUTF8(cp), cp)
      BY <3>1, EncodesAll DEF CodePoint
    <3> QED
      BY <3>2, <3>3 DEF Text!String
  <2> QED
    BY <2>7, <2>8 DEF Text!RoundTrip
<1>2. Text!RoundTrip => RoundTrip
  BY DEF RoundTrip
<1> QED
  BY <1>1, <1>2, TextInvHolds, PTL

-------------------------------------------------------------------------------
(* Lines and columns. *)

LEMMA LexersSets ==
  /\ \A S : Lexer!Cardinality(S) = Cardinality(S)
  /\ \A S : Lexer!Max(S) = Max(S)
  /\ \A S : Lexer!Min(S) = Text!Min(S)
<1>1. \A S : Lexer!Cardinality(S) = Cardinality(S)
  BY DEF Lexer!Cardinality, Cardinality
<1>2. \A S : Lexer!Max(S) = Max(S)
  BY DEF Lexer!Max, Max
<1>3. \A S : Lexer!Min(S) = Text!Min(S)
  BY DEF Lexer!Min, Text!Min
<1> QED
  BY <1>1, <1>2, <1>3

(* A set with its greatest element. *)
Greatest(S, m) == S \in SUBSET Int /\ m \in S /\ \A x \in S : x <= m

LEMMA GreatestIs ==
  ASSUME NEW S, NEW m, Greatest(S, m)
  PROVE  Max(S) = m
<1>1. m \in S /\ \A x \in S : x \in Int /\ x <= m
  BY DEF Greatest
<1>2. \A k \in S : (\A x \in S : k >= x) => k = m
  <2> SUFFICES ASSUME NEW k \in S, \A x \in S : k >= x
               PROVE  k = m
    OBVIOUS
  <2>1. k <= m /\ k >= m /\ k \in Int /\ m \in Int
    BY <1>1
  <2> QED
    BY <2>1
<1>3. Max(S) \in S /\ \A x \in S : Max(S) >= x
  <2>1. \A x \in S : m >= x
    BY <1>1
  <2> QED
    BY <1>1, <2>1 DEF Max
<1> QED
  BY <1>2, <1>3

(* Where lines start, and the line feeds of the same text with one for each line end. *)
Ends(d, k) ==
  {j \in 1..k : d[j] = 10 \/ (d[j] = 13 /\ ~ (j + 1 <= k /\ d[j + 1] = 10))}
StartsOf(d, k) == {1} \cup {j + 1 : j \in Ends(d, k)}
Feeds(s) == {j \in 1..Len(s) : s[j] = 10}

LEMMA FeedsAppend ==
  ASSUME NEW s \in Seq(Int), NEW c \in Int
  PROVE  Feeds(Append(s, c)) = Feeds(s) \cup (IF c = 10 THEN {Len(s) + 1} ELSE {})
<1>1. Len(Append(s, c)) = Len(s) + 1 /\ Append(s, c)[Len(s) + 1] = c
        /\ \A j \in 1..Len(s) : Append(s, c)[j] = s[j]
  OBVIOUS
<1>2. \A j : j \in 1..Len(s) + 1 <=> j \in 1..Len(s) \/ j = Len(s) + 1
  OBVIOUS
<1>3. \A j \in 1..Len(s) : j # Len(s) + 1
  OBVIOUS
<1> QED
  BY <1>1, <1>2, <1>3 DEF Feeds

(* The lines of a text and of the normalised one agree in number and in how far the last has come. *)
Agree(starts, k, s) ==
  /\ IsFiniteSet(starts) /\ IsFiniteSet(Feeds(s))
  /\ Cardinality(starts) = Cardinality(Feeds(s)) + 1
  /\ \E m, g \in Int : Greatest(starts, m) /\ Greatest(Feeds(s) \cup {0}, g) /\ k + 1 - m = Len(s) - g

LEMMA AgreeAtStart == Agree(StartsOf(<< >>, 0), 0, << >>)
<1>1. StartsOf(<< >>, 0) = {1} /\ Feeds(<< >>) = {}
  BY DEF StartsOf, Ends, Feeds
<1>2. Greatest({1}, 1) /\ Greatest({} \cup {0}, 0)
  BY DEF Greatest
<1>3. IsFiniteSet({1}) /\ Cardinality({1}) = 1 /\ IsFiniteSet({}) /\ Cardinality({}) = 0
  BY FS_Singleton, FS_EmptySet
<1>4. ASSUME NEW one \in Int, one = 1, NEW zero \in Int, zero = 0
      PROVE  \E m, g \in Int : Greatest({1}, m) /\ Greatest({} \cup {0}, g) /\ 0 + 1 - m = Len(<< >>) - g
  <2>1. Greatest({1}, one) /\ Greatest({} \cup {0}, zero) /\ 0 + 1 - one = Len(<< >>) - zero
    BY <1>2, <1>4
  <2> QED
    BY <2>1
<1>5. \E m, g \in Int : Greatest({1}, m) /\ Greatest({} \cup {0}, g) /\ 0 + 1 - m = Len(<< >>) - g
  BY <1>4
<1>6. Cardinality({1}) = Cardinality({}) + 1
  BY <1>3
<1>7. ASSUME NEW starts, starts = {1}, NEW feeds, feeds = {}, Feeds(<< >>) = feeds
      PROVE  Agree(starts, 0, << >>)
  BY <1>3, <1>5, <1>6, <1>7, Zenon DEF Agree
<1> QED
  BY <1>1, <1>7, Zenon

(* The place behind k is a line end, in both. *)
LEMMA AgreeAtEnd ==
  ASSUME NEW starts, NEW k \in Nat, NEW s \in Seq(Int), Agree(starts, k, s), starts \in SUBSET (1..k + 1)
  PROVE  Agree(starts \cup {k + 2}, k + 1, Append(s, 10))
<1> DEFINE feeds == Feeds(s)
<1>1. Feeds(Append(s, 10)) = feeds \cup {Len(s) + 1} /\ Len(Append(s, 10)) = Len(s) + 1
  <2>1. ASSUME NEW c \in Int, c = 10 PROVE Feeds(Append(s, c)) = Feeds(s) \cup {Len(s) + 1}
    BY <2>1, FeedsAppend
  <2> QED
    BY <2>1
<1>2. k + 2 \notin starts /\ Len(s) + 1 \notin feeds
  BY DEF Feeds
<1>3. /\ IsFiniteSet(starts) /\ IsFiniteSet(feeds) /\ Cardinality(starts) = Cardinality(feeds) + 1
  BY DEF Agree
<1>4. Cardinality(feeds) \in Nat
  BY <1>3, FS_CardinalityType
<1>5. /\ IsFiniteSet(starts \cup {k + 2}) /\ Cardinality(starts \cup {k + 2}) = Cardinality(starts) + 1
      /\ IsFiniteSet(feeds \cup {Len(s) + 1}) /\ Cardinality(feeds \cup {Len(s) + 1}) = Cardinality(feeds) + 1
  <2> HIDE DEF feeds
  <2> QED
    BY <1>2, <1>3, FS_AddElement
<1>6. Greatest(starts \cup {k + 2}, k + 2)
  BY DEF Greatest
<1>7. Greatest((feeds \cup {Len(s) + 1}) \cup {0}, Len(s) + 1)
  BY DEF Greatest, Feeds
<1>8. (k + 1) + 1 - (k + 2) = (Len(s) + 1) - (Len(s) + 1) /\ k + 2 \in Int /\ Len(s) + 1 \in Int
  OBVIOUS
<1> HIDE DEF feeds
<1> QED
  BY <1>1, <1>3, <1>4, <1>5, <1>6, <1>7, <1>8 DEF Agree

(* It is not. *)
LEMMA AgreeInLine ==
  ASSUME NEW starts, NEW k \in Nat, NEW s \in Seq(Int), Agree(starts, k, s), NEW c \in Int, c # 10
  PROVE  Agree(starts, k + 1, Append(s, c))
<1>1. Feeds(Append(s, c)) = Feeds(s) /\ Len(Append(s, c)) = Len(s) + 1
  <2>1. Feeds(Append(s, c)) = Feeds(s) \cup (IF c = 10 THEN {Len(s) + 1} ELSE {})
    BY FeedsAppend
  <2>2. (IF c = 10 THEN {Len(s) + 1} ELSE {}) = {}
    OBVIOUS
  <2> QED
    BY <2>1, <2>2
<1>2. PICK m \in Int, g \in Int : Greatest(starts, m) /\ Greatest(Feeds(s) \cup {0}, g) /\ k + 1 - m = Len(s) - g
  BY DEF Agree
<1>3. (k + 1) + 1 - m = (Len(s) + 1) - g
  BY <1>2
<1> QED
  BY <1>1, <1>2, <1>3 DEF Agree

(* It is the line feed of a pair whose other half was taken for the end. *)
LEMMA AgreeInPair ==
  ASSUME NEW starts, NEW k \in Nat, NEW s \in Seq(Int), Agree(starts, k, s), starts \in SUBSET (1..k + 1),
         k + 1 \in starts
  PROVE  Agree((starts \ {k + 1}) \cup {k + 2}, k + 1, s)
<1>1. PICK m \in Int, g \in Int : Greatest(starts, m) /\ Greatest(Feeds(s) \cup {0}, g) /\ k + 1 - m = Len(s) - g
  BY DEF Agree
<1>2. m = k + 1
  BY <1>1 DEF Greatest
<1>3. Greatest((starts \ {k + 1}) \cup {k + 2}, k + 2)
  BY DEF Greatest
<1>4. IsFiniteSet(starts) /\ k + 2 \notin starts \ {k + 1}
  BY DEF Agree
<1>5. /\ IsFiniteSet(starts \ {k + 1}) /\ Cardinality(starts \ {k + 1}) = Cardinality(starts) - 1
      /\ IsFiniteSet((starts \ {k + 1}) \cup {k + 2})
      /\ Cardinality((starts \ {k + 1}) \cup {k + 2}) = Cardinality(starts \ {k + 1}) + 1
  BY <1>4, FS_AddElement, FS_RemoveElement
<1>6. Cardinality(starts) \in Nat
  BY <1>4, FS_CardinalityType
<1>7. Cardinality((starts \ {k + 1}) \cup {k + 2}) = Cardinality(starts)
  BY <1>5, <1>6
<1>8. (k + 1) + 1 - (k + 2) = Len(s) - g /\ k + 2 \in Int
  BY <1>1, <1>2
<1> QED
  BY <1>1, <1>3, <1>5, <1>7, <1>8 DEF Agree

(* The places behind the ends, one byte further. *)
LEMMA StartsGrow ==
  ASSUME NEW d \in Seq(Int), NEW k \in 0..Len(d) - 1
  PROVE  /\ StartsOf(d, k) \in SUBSET (1..k + 1)
         /\ d[k + 1] = 10 /\ k >= 1 /\ d[k] = 13 =>
              k + 1 \in StartsOf(d, k) /\ StartsOf(d, k + 1) = (StartsOf(d, k) \ {k + 1}) \cup {k + 2}
         /\ (d[k + 1] = 10 /\ ~ (k >= 1 /\ d[k] = 13)) \/ d[k + 1] = 13 =>
              StartsOf(d, k + 1) = StartsOf(d, k) \cup {k + 2}
         /\ d[k + 1] \notin {10, 13} => StartsOf(d, k + 1) = StartsOf(d, k)
<1> DEFINE E == Ends(d, k)
           F == Ends(d, k + 1)
<1>1. k \in Nat /\ E \in SUBSET (1..k)
  BY DEF Ends
<1>2. ASSUME NEW j \in Int, j < k PROVE j \in F <=> j \in E
  BY <1>2, <1>1 DEF Ends
<1>3. ASSUME NEW j \in Int, j > k + 1 PROVE j \notin F /\ j \notin E
  BY <1>3, <1>1 DEF Ends
<1>4. k + 1 \notin E /\ (k + 1 \in F <=> d[k + 1] \in {10, 13})
  BY <1>1 DEF Ends
<1>5. k >= 1 => (k \in E <=> d[k] \in {10, 13}) /\ (k \in F <=> d[k] = 10 \/ (d[k] = 13 /\ d[k + 1] # 10))
  BY <1>1 DEF Ends
<1>6. k < 1 => k \notin E /\ k \notin F
  BY <1>1 DEF Ends
<1>7. F \in SUBSET Int /\ E \in SUBSET Int
  BY <1>1 DEF Ends
<1>8. StartsOf(d, k) = {1} \cup {j + 1 : j \in E} /\ StartsOf(d, k + 1) = {1} \cup {j + 1 : j \in F}
  BY DEF StartsOf
<1> HIDE DEF E, F
<1>9. \A j \in Int : j < k \/ j = k \/ j = k + 1 \/ j > k + 1
  BY <1>1
<1>10. StartsOf(d, k) \in SUBSET (1..k + 1)
  BY <1>1, <1>8
<1>11. ASSUME d[k + 1] = 10, k >= 1, d[k] = 13
       PROVE  k + 1 \in StartsOf(d, k) /\ StartsOf(d, k + 1) = (StartsOf(d, k) \ {k + 1}) \cup {k + 2}
  <2>1. k \in E /\ k \notin F /\ k + 1 \in F
    BY <1>4, <1>5, <1>11
  <2>2. \A j \in Int : j \in F <=> (j \in E /\ j # k) \/ j = k + 1
    BY <1>2, <1>3, <1>4, <1>9, <2>1
  <2>6. \A j : j \in F <=> (j \in E /\ j # k) \/ j = k + 1
    <3>1. k + 1 \in Int
      BY <1>1
    <3> QED
      BY <1>7, <2>2, <3>1, Zenon
  <2>3. F = (E \ {k}) \cup {k + 1}
    BY <2>6, Zenon
  <2>4. \A x \in E : x + 1 = k + 1 => x = k
    BY <1>1, <1>7
  <2>5. {j + 1 : j \in F} = ({j + 1 : j \in E} \ {k + 1}) \cup {k + 2}
    BY <1>1, <1>7, <2>3, <2>4
  <2>7. k + 1 \in {j + 1 : j \in E} /\ 1 # k + 1
    BY <1>1, <1>11, <2>1
  <2> QED
    BY <1>8, <2>5, <2>7, Zenon
<1>12. ASSUME \/ d[k + 1] = 10 /\ ~ (k >= 1 /\ d[k] = 13)
              \/ d[k + 1] = 13
       PROVE  StartsOf(d, k + 1) = StartsOf(d, k) \cup {k + 2}
  <2>1. k \in F <=> k \in E
    BY <1>1, <1>5, <1>6, <1>12
  <2>2. \A j \in Int : j \in F <=> j \in E \/ j = k + 1
    BY <1>2, <1>3, <1>4, <1>9, <1>12, <2>1
  <2>5. \A j : j \in F <=> j \in E \/ j = k + 1
    <3>1. k + 1 \in Int
      BY <1>1
    <3> QED
      BY <1>7, <2>2, <3>1, Zenon
  <2>3. F = E \cup {k + 1}
    BY <2>5, Zenon
  <2>4. {j + 1 : j \in F} = {j + 1 : j \in E} \cup {k + 2}
    <3>1. (k + 1) + 1 = k + 2
      BY <1>1
    <3> QED
      BY <2>5, <3>1, Zenon
  <2> QED
    BY <1>8, <2>4
<1>13. ASSUME d[k + 1] \notin {10, 13}
       PROVE  StartsOf(d, k + 1) = StartsOf(d, k)
  <2>1. k \in F <=> k \in E
    BY <1>1, <1>5, <1>6, <1>13
  <2>2. \A j \in Int : j \in F <=> j \in E
    BY <1>2, <1>3, <1>4, <1>9, <1>13, <2>1
  <2>3. F = E
    BY <1>7, <2>2
  <2> QED
    BY <1>8, <2>3
<1> QED
  BY <1>10, <1>11, <1>12, <1>13

Lines == Seq(Int)
Kept(d, s, i) ==
  IF d[i] = Lexer!LF /\ i > 1 /\ d[i - 1] = Lexer!CR THEN s
  ELSE Append(s, IF d[i] = Lexer!CR THEN Lexer!LF ELSE d[i])

LEMMA NormalizeIs ==
  ASSUME NEW d \in Seq(Int)
  PROVE  \E f \in [0..Len(d) -> Lines] :
           /\ f[0] = << >> /\ Lexer!normalizeEOL(d) = f[Len(d)]
           /\ \A k \in 1..Len(d) : f[k] = Kept(d, f[k - 1], k)
<1> DEFINE n == Len(d)
           base == << >>
           step == [i \in 1..n |-> [r \in Lines |-> Kept(d, r, i)]]
           Is(it) == it = [p \in SUBSET DOMAIN [i \in DOMAIN d |-> i] |->
                             IF p = {} THEN base
                             ELSE Kept(d, it[p \ {Max(p)}], [i \in DOMAIN d |-> i][Max(p)])]
<1>1. n \in Nat /\ DOMAIN d = 1..n /\ \A i \in 1..n : d[i] \in Int
  OBVIOUS
<1>10. ASSUME NEW i \in 1..n, NEW r \in Lines
       PROVE  Kept(d, r, i) \in Lines
  <2>1. Lexer!LF \in Int /\ d[i] \in Int
    BY <1>1 DEF Lexer!LF
  <2> QED
    BY <2>1 DEF Kept, Lines
<1>2. step \in Turns(n, Lines) /\ base \in Lines
  BY <1>10 DEF Turns, Lines
<1>3. PICK it : Iterates(it, n, Lines, base, step)
  <2> HIDE DEF step, base, n
  <2> QED
    BY <1>1, <1>2, FoldExists
<1>4. Is(it)
  <2>1. ASSUME NEW p \in SUBSET (1..n), p # {}
        PROVE  it[p] = Kept(d, it[p \ {Max(p)}], Max(p)) /\ Max(p) \in 1..n
    <3>1. Max(p) \in 1..n /\ it[p \ {Max(p)}] \in Lines
      BY <2>1, <1>1, <1>3, LastNumber DEF Iterates
    <3> HIDE DEF n, base
    <3>2. it[p] = step[Max(p)][it[p \ {Max(p)}]]
      BY <2>1, <1>3 DEF Iterates
    <3> QED
      BY <3>1, <3>2
  <2>2. \A p \in SUBSET (1..n) : p = {} => it[p] = base
    BY <1>3 DEF Iterates
  <2> HIDE DEF base
  <2> QED
    BY <1>1, <1>3, <2>1, <2>2 DEF Iterates
<1>5. \E g : Is(g)
  BY <1>4
<1>6. PICK g : Is(g) /\ Lexer!normalizeEOL(d) = g[DOMAIN [i \in DOMAIN d |-> i]]
  BY <1>5 DEF Lexer!normalizeEOL, Lexer!FoldLeftDomain, Lexer!FoldLeft, Lexer!MapThenFoldSet, Lexer!Max, Max, Kept
<1>7. \E f : Folds(f, n, Lines, base, step) /\ f[n] = g[1..n]
  <2>1. \A p \in SUBSET (1..n) :
          g[p] = IF p = {} THEN base ELSE Kept(d, g[p \ {Max(p)}], [i \in DOMAIN d |-> i][Max(p)])
    BY <1>6, <1>1
  <2>2. ASSUME NEW p \in SUBSET (1..n), p # {}, g[p \ {Max(p)}] \in Lines
        PROVE  g[p] = step[Max(p)][g[p \ {Max(p)}]]
    <3>1. Max(p) \in 1..n /\ [i \in DOMAIN d |-> i][Max(p)] = Max(p)
      BY <2>2, <1>1, LastNumber
    <3> QED
      BY <2>1, <2>2, <3>1
  <2>3. g[{}] = base
    BY <2>1
  <2>4. TakesTurns(g, n, Lines, base, step)
    BY <2>2, <2>3 DEF TakesTurns
  <2> HIDE DEF step, Is, n, base
  <2> QED
    BY <1>1, <1>2, <2>4, FoldIs
<1>8. PICK f : Folds(f, n, Lines, base, step) /\ f[n] = g[1..n]
  BY <1>7
<1>9. \A k \in 1..n : f[k] = Kept(d, f[k - 1], k)
  <2>1. \A k \in 1..n : k - 1 \in 0..n
    BY <1>1
  <2>2. \A k \in 1..n : f[k - 1] \in Lines /\ f[k] = step[k][f[k - 1]]
    BY <1>8, <2>1 DEF Folds
  <2> QED
    BY <2>2
<1> QED
  BY <1>1, <1>6, <1>8, <1>9, ZenonT(60) DEF Folds

(* The whole text is normalised place by place, and agrees all the way. *)
LEMMA NormalizedAgrees ==
  ASSUME NEW d \in Seq(Int)
  PROVE  Agree(StartsOf(d, Len(d)), Len(d), Lexer!normalizeEOL(d)) /\ Lexer!normalizeEOL(d) \in Seq(Int)
<1>1. PICK f \in [0..Len(d) -> Lines] :
           /\ f[0] = << >> /\ Lexer!normalizeEOL(d) = f[Len(d)]
           /\ \A k \in 1..Len(d) : f[k] = Kept(d, f[k - 1], k)
  BY NormalizeIs
<1> DEFINE K == {k \in Nat : k <= Len(d) => Agree(StartsOf(d, k), k, f[k])}
<1>2. 0 \in K
  <2>1. StartsOf(d, 0) = StartsOf(<< >>, 0)
    BY DEF StartsOf, Ends
  <2> QED
    BY <1>1, <2>1, AgreeAtStart
<1>3. ASSUME NEW k \in Nat, k \in K, k + 1 <= Len(d)
      PROVE  Agree(StartsOf(d, k + 1), k + 1, f[k + 1])
  <2>1. Agree(StartsOf(d, k), k, f[k]) /\ f[k] \in Seq(Int) /\ k \in 0..Len(d) - 1 /\ d[k + 1] \in Int
    BY <1>3 DEF Lines
  <2>2. f[k + 1] = Kept(d, f[k], k + 1)
    <3>1. k + 1 \in 1..Len(d) /\ (k + 1) - 1 = k
      BY <1>3
    <3> QED
      BY <1>1, <3>1
  <2>3. Lexer!LF = 10 /\ Lexer!CR = 13 /\ (k + 1) - 1 = k /\ (k + 1 > 1 <=> k >= 1)
    BY DEF Lexer!LF, Lexer!CR
  <2>4. f[k + 1] = IF d[k + 1] = 10 /\ k >= 1 /\ d[k] = 13 THEN f[k]
                   ELSE Append(f[k], IF d[k + 1] = 13 THEN 10 ELSE d[k + 1])
    BY <2>2, <2>3 DEF Kept
  <2>5. StartsOf(d, k) \in SUBSET (1..k + 1)
    BY <2>1, StartsGrow
  <2>6. CASE d[k + 1] = 10 /\ k >= 1 /\ d[k] = 13
    <3>1. k + 1 \in StartsOf(d, k) /\ StartsOf(d, k + 1) = (StartsOf(d, k) \ {k + 1}) \cup {k + 2}
      BY <2>1, <2>6, StartsGrow
    <3>2. Agree((StartsOf(d, k) \ {k + 1}) \cup {k + 2}, k + 1, f[k])
      BY <2>1, <2>5, <3>1, AgreeInPair
    <3> QED
      BY <2>4, <2>6, <3>1, <3>2
  <2>7. CASE (d[k + 1] = 10 /\ ~ (k >= 1 /\ d[k] = 13)) \/ d[k + 1] = 13
    <3>1. StartsOf(d, k + 1) = StartsOf(d, k) \cup {k + 2}
      BY <2>1, <2>7, StartsGrow
    <3>2. f[k + 1] = Append(f[k], 10)
      BY <2>4, <2>7
    <3>3. Agree(StartsOf(d, k) \cup {k + 2}, k + 1, Append(f[k], 10))
      BY <2>1, <2>5, AgreeAtEnd
    <3> QED
      BY <3>1, <3>2, <3>3
  <2>8. CASE d[k + 1] \notin {10, 13}
    <3>1. StartsOf(d, k + 1) = StartsOf(d, k)
      BY <2>1, <2>8, StartsGrow
    <3>2. f[k + 1] = Append(f[k], d[k + 1])
      BY <2>4, <2>8
    <3>3. Agree(StartsOf(d, k), k + 1, Append(f[k], d[k + 1]))
      <4>1. d[k + 1] # 10
        BY <2>8
      <4> QED
        BY <2>1, <4>1, AgreeInLine
    <3> QED
      BY <3>1, <3>2, <3>3
  <2> QED
    BY <2>6, <2>7, <2>8
<1>4. Len(d) \in K
  <2>1. \A k \in Nat : k \in K => k + 1 \in K
    BY <1>3
  <2> HIDE DEF K
  <2> QED
    BY <1>2, <2>1, SetInduction, SMTT(40)
<1> QED
  BY <1>1, <1>4 DEF Lines

(* LineStarts() of a place that is no line feed itself. *)
LEMMA LineStartsAre ==
  ASSUME NEW d \in Seq(Int), NEW i \in 1..Len(d) + 1, Lexer!At(d, i) # 10
  PROVE  Lexer!LineStarts(d, i) = StartsOf(SubSeq(d, 1, i - 1), i - 1)
<1> DEFINE p == SubSeq(d, 1, i - 1)
           n == i - 1
           B == {k \in 1..n : d[k] = 13 \/ (d[k] = 10 /\ ~ (k > 1 /\ d[k - 1] = 13))}
           behind(j) == j + (IF d[j] = 13 /\ Lexer!At(d, j + 1) = 10 THEN 2 ELSE 1)
<1>1. n \in Nat /\ i = n + 1 /\ n <= Len(d)
  OBVIOUS
<1>2. \A j \in 1..n : p[j] = d[j]
  OBVIOUS
<1>3. Lexer!LineStarts(d, i) = {1} \cup {behind(j) : j \in B}
  BY DEF Lexer!LineStarts, Lexer!CR, Lexer!LF
<1>4. \A j \in 1..n : Lexer!At(d, j + 1) = 10 <=> (j + 1 <= n /\ d[j + 1] = 10)
  BY <1>1 DEF Lexer!At, Lexer!end
<1>5. StartsOf(p, n) = {1} \cup {j + 1 : j \in Ends(p, n)}
  BY DEF StartsOf
<1>6. \A j : j \in Ends(p, n) <=> j \in 1..n /\ (d[j] = 10 \/ (d[j] = 13 /\ ~ (j + 1 <= n /\ d[j + 1] = 10)))
  <2>1. \A j \in 1..n : j + 1 <= n => j + 1 \in 1..n
    BY <1>1
  <2> HIDE DEF p, n
  <2> QED
    BY <1>2, <2>1 DEF Ends
<1> HIDE DEF p
<1>7. ASSUME NEW j \in B PROVE behind(j) \in {e + 1 : e \in Ends(p, n)}
  <2>0. j \in 1..n /\ j \in Int
    BY <1>1
  <2>1. CASE d[j] = 13 /\ j + 1 <= n /\ d[j + 1] = 10
    <3>1. behind(j) = (j + 1) + 1
      BY <1>4, <2>0, <2>1
    <3>2. j + 1 \in Ends(p, n)
      BY <1>1, <1>6, <2>0, <2>1
    <3> HIDE DEF behind, n
    <3> QED
      BY <3>1, <3>2
  <2>2. CASE ~ (d[j] = 13 /\ j + 1 <= n /\ d[j + 1] = 10)
    <3>1. behind(j) = j + 1
      BY <1>4, <2>0, <2>2
    <3>2. j \in Ends(p, n)
      BY <1>1, <1>6, <2>0, <2>2
    <3> HIDE DEF behind, n
    <3> QED
      BY <3>1, <3>2
  <2> QED
    BY <2>1, <2>2
<1>8. ASSUME NEW e \in Ends(p, n) PROVE e + 1 \in {behind(j) : j \in B}
  <2>0. e \in 1..n /\ e \in Int /\ (d[e] = 10 \/ (d[e] = 13 /\ ~ (e + 1 <= n /\ d[e + 1] = 10)))
    BY <1>1, <1>6
  <2>1. CASE d[e] = 10 /\ e > 1 /\ d[e - 1] = 13
    <3>1. e - 1 \in B
      BY <1>1, <2>0, <2>1
    <3>2. behind(e - 1) = e + 1
      <4>1. e - 1 \in 1..n /\ (e - 1) + 1 = e /\ e <= n
        BY <1>1, <2>0, <2>1
      <4> QED
        BY <1>4, <2>1, <4>1
    <3> HIDE DEF behind, n, B
    <3> QED
      BY <3>1, <3>2
  <2>2. CASE ~ (d[e] = 10 /\ e > 1 /\ d[e - 1] = 13)
    <3>1. e \in B
      BY <2>0, <2>2
    <3>2. behind(e) = e + 1
      BY <1>4, <2>0, <2>2
    <3> HIDE DEF behind, n, B
    <3> QED
      BY <3>1, <3>2
  <2> QED
    BY <2>1, <2>2
<1> HIDE DEF B, behind
<1>9. {behind(j) : j \in B} = {e + 1 : e \in Ends(p, n)}
  BY <1>7, <1>8
<1> QED
  BY <1>3, <1>5, <1>9, Zenon DEF p

(* Places in a document and behind it. *)
Positive == Nat \ {0}
PlacesOf(d) == 1..Len(d) + 1

LEMMA LexerFirst ==
  ASSUME NEW d \in Seq(Int), NEW Stops \in SUBSET (1..Len(d))
  PROVE  IsFirst(Lexer!Min(Stops \cup {Lexer!end(d)}), Stops, Len(d))
<1>1. Lexer!end(d) = Len(d) + 1 /\ Len(d) \in Nat
  BY DEF Lexer!end
<1> QED
  BY <1>1, LexersSets, FirstExists

LEMMA FirstWithin ==
  ASSUME NEW d \in Seq(Int), NEW i \in Positive, NEW Stops \in SUBSET (i..Len(d))
  PROVE  Lexer!Min(Stops \cup {Lexer!end(d)}) \in PlacesOf(d)
<1>1. Stops \in SUBSET (1..Len(d))
  BY DEF Positive
<1> QED
  BY <1>1, LexerFirst DEF IsFirst, PlacesOf

(* The byte that a token begins with is not blank. *)
LEMMA StartIs ==
  ASSUME NEW d \in Seq(Int), NEW i \in Positive
  PROVE  /\ Lexer!skipSpaces(d, i) \in PlacesOf(d)
         /\ Lexer!skipSpaces(d, i) \in 1..Len(d) => d[Lexer!skipSpaces(d, i)] # 10
<1> DEFINE Stops == {j \in i..Len(d) : d[j] \notin {Lexer!SP, Lexer!TAB, Lexer!CR, Lexer!LF}}
           s == Lexer!Min(Stops \cup {Lexer!end(d)})
<1>1. Stops \in SUBSET (1..Len(d)) /\ Stops \in SUBSET (i..Len(d)) /\ Len(d) \in Nat
  BY DEF Positive
<1>2. s \in Stops \/ s = Len(d) + 1
  BY <1>1, LexerFirst DEF IsFirst
<1>3. s \in PlacesOf(d)
  BY <1>1, FirstWithin
<1>4. \A j \in Stops : d[j] # 10
  BY DEF Lexer!LF
<1>5. Len(d) + 1 \notin 1..Len(d)
  BY <1>1
<1>6. Lexer!skipSpaces(d, i) = s
  BY DEF Lexer!skipSpaces, Lexer!FirstFrom
<1> HIDE DEF s, Stops
<1> QED
  BY <1>2, <1>3, <1>4, <1>5, <1>6

LEMMA AfterWithin ==
  ASSUME NEW d \in Seq(Int), NEW i \in Positive
  PROVE  /\ Lexer!After(d, i) \in PlacesOf(d)
         /\ i <= Len(d) => Lexer!After(d, i) = i + 1
<1> DEFINE e == Len(d) + 1
<1>1. e \in Positive /\ i \in Int /\ i >= 1 /\ i + 1 \in Int /\ e \in Int /\ Len(d) \in Nat
  BY DEF Positive
<1>2. Lexer!After(d, i) = Text!Min({i + 1, e})
  BY LexersSets DEF Lexer!After, Lexer!end
<1>3. CASE i + 1 <= e
  <2>1. {i + 1, e} \in SUBSET Int /\ i + 1 \in {i + 1, e} /\ \A m \in {i + 1, e} : i + 1 <= m
    BY <1>1, <1>3
  <2>2. Text!Min({i + 1, e}) = i + 1
    BY <2>1, MinIs
  <2> QED
    BY <1>1, <1>2, <1>3, <2>2 DEF PlacesOf
<1>4. CASE ~ (i + 1 <= e)
  <2>1. {i + 1, e} \in SUBSET Int /\ e \in {i + 1, e} /\ \A m \in {i + 1, e} : e <= m
    BY <1>1, <1>4
  <2>2. Text!Min({i + 1, e}) = e
    <3> HIDE DEF e
    <3> QED
      BY <2>1, MinIs
  <2> QED
    BY <1>1, <1>2, <1>4, <2>2 DEF PlacesOf
<1> QED
  BY <1>3, <1>4

LEMMA WithinPositive ==
  ASSUME NEW d \in Seq(Int)
  PROVE  /\ PlacesOf(d) \subseteq Positive
         /\ \A i \in Positive : i + 1 \in Positive /\ i + 2 \in Positive
BY DEF PlacesOf, Positive

LEMMA MatchTyped ==
  ASSUME NEW d \in Seq(Int), NEW i \in Positive, NEW word \in Seq(Int)
  PROVE  Lexer!match(d, i, word).current \in Positive
<1>1. i + Len(word) \in Positive
  BY DEF Positive
<1> QED
  BY <1>1 DEF Lexer!match, Lexer!Found

LEMMA CommentTyped ==
  ASSUME NEW d \in Seq(Int), NEW i \in Positive
  PROVE  Lexer!readComment(d, i).current \in Positive
<1>1. i + 1 \in Positive /\ \A j \in Positive : Lexer!After(d, j) \in Positive
  BY AfterWithin, WithinPositive
<1>2. Lexer!readCStyleComment(d, i + 1).current \in Positive
  <2> DEFINE Stops == {j \in i + 1..Len(d) : d[j] = Lexer!STAR /\ Lexer!At(d, j + 1) = Lexer!SLASH}
             star == Lexer!Min(Stops \cup {Lexer!end(d)})
  <2>1. Stops \in SUBSET (i + 1..Len(d))
    OBVIOUS
  <2>2. star \in Positive
    <3> HIDE DEF Stops
    <3> QED
      BY <1>1, <2>1, FirstWithin, WithinPositive
  <2>3. Lexer!readCStyleComment(d, i + 1).current = Lexer!After(d, Lexer!After(d, star))
    BY DEF Lexer!readCStyleComment, Lexer!FirstFrom, Lexer!Found
  <2> HIDE DEF star
  <2> QED
    BY <1>1, <2>2, <2>3
<1>3. Lexer!readCppStyleComment(d, i + 1).current \in Positive
  <2> DEFINE Stops == {j \in i + 1..Len(d) : d[j] \in {Lexer!CR, Lexer!LF}}
             eol == Lexer!Min(Stops \cup {Lexer!end(d)})
  <2>1. Stops \in SUBSET (i + 1..Len(d))
    OBVIOUS
  <2>2. eol \in Positive
    <3> HIDE DEF Stops
    <3> QED
      BY <1>1, <2>1, FirstWithin, WithinPositive
  <2>3. Lexer!readCppStyleComment(d, i + 1).current =
          IF Lexer!Next_(d, eol) = Lexer!CR /\ Lexer!Next_(d, eol + 1) = Lexer!LF
          THEN eol + 2 ELSE Lexer!After(d, eol)
    BY DEF Lexer!readCppStyleComment, Lexer!FirstFrom, Lexer!Found
  <2>4. eol + 2 \in Positive /\ Lexer!After(d, eol) \in Positive
    <3> HIDE DEF eol
    <3> QED
      BY <1>1, <2>2, WithinPositive
  <2> HIDE DEF eol
  <2> QED
    BY <2>3, <2>4
<1>4. Lexer!Found(FALSE, Lexer!After(d, i)).current \in Positive
  BY <1>1 DEF Lexer!Found
<1> QED
  BY <1>2, <1>3, <1>4 DEF Lexer!readComment

LEMMA NumberTyped ==
  ASSUME NEW d \in Seq(Int), NEW i \in Positive
  PROVE  Lexer!readNumber(d, i) \in Positive
<1> DEFINE Digits(j) == Lexer!FirstFrom(d, j, LAMBDA k : d[k] \notin Lexer!DIGITS)
           integral == Digits(i)
           fraction == IF Lexer!Next_(d, integral) = Lexer!POINT THEN Digits(integral + 1) ELSE integral
           sign == IF Lexer!Next_(d, fraction + 1) \in {Lexer!PLUS, Lexer!MINUS} THEN 1 ELSE 0
<1>1. ASSUME NEW j \in Positive PROVE Digits(j) \in Positive
  <2> DEFINE Stops == {k \in j..Len(d) : d[k] \notin Lexer!DIGITS}
  <2>1. Stops \in SUBSET (j..Len(d))
    OBVIOUS
  <2>2. Digits(j) = Lexer!Min(Stops \cup {Lexer!end(d)})
    BY DEF Lexer!FirstFrom
  <2> HIDE DEF Stops, Digits
  <2> QED
    BY <2>1, <2>2, FirstWithin, WithinPositive
<1> HIDE DEF Digits
<1>2. integral \in Positive
  BY <1>1
<1> HIDE DEF integral
<1>3. fraction \in Positive
  BY <1>1, <1>2, WithinPositive
<1> HIDE DEF fraction
<1>4. fraction + 1 + sign \in Positive
  BY <1>3 DEF Positive
<1> HIDE DEF sign
<1>5. Digits(fraction + 1 + sign) \in Positive
  BY <1>1, <1>4
<1>6. Lexer!readNumber(d, i) = IF Lexer!Next_(d, fraction) \in {69, 101} THEN Digits(fraction + 1 + sign) ELSE fraction
  BY DEF Lexer!readNumber, integral, fraction, sign, Digits
<1> QED
  BY <1>3, <1>5, <1>6

LEMMA BehindEscaped ==
  ASSUME NEW d \in Seq(Int), NEW j \in 1..Len(d)
  PROVE  Lexer!After(d, j + 1) \in j + 1..Len(d) + 1
<1>1. j + 1 \in Positive /\ Len(d) \in Nat /\ j \in Int
  BY DEF Positive
<1>2. Lexer!After(d, j + 1) \in PlacesOf(d) /\ (j + 1 <= Len(d) => Lexer!After(d, j + 1) = (j + 1) + 1)
  BY <1>1, AfterWithin
<1>3. CASE j + 1 <= Len(d)
  <2>1. (j + 1) + 1 \in j + 1..Len(d) + 1
    BY <1>1, <1>3
  <2> QED
    BY <1>2, <1>3, <2>1
<1>4. CASE j = Len(d)
  <2>1. {(j + 1) + 1, j + 1} \in SUBSET Int /\ j + 1 \in {(j + 1) + 1, j + 1}
          /\ \A m \in {(j + 1) + 1, j + 1} : j + 1 <= m
    BY <1>1
  <2>2. Lexer!After(d, j + 1) = Text!Min({(j + 1) + 1, j + 1})
    BY <1>4, LexersSets DEF Lexer!After, Lexer!end
  <2>3. Lexer!After(d, j + 1) = j + 1
    BY <2>1, <2>2, MinIs
  <2> QED
    BY <1>1, <1>4, <2>3
<1> QED
  BY <1>1, <1>3, <1>4

(* The closing quote, searched for from i on. *)
LEMMA StringTyped ==
  ASSUME NEW d \in Seq(Int), NEW i \in PlacesOf(d)
  PROVE  Lexer!readString(d, i).current \in Positive
<1> DEFINE high == Len(d) + 1
           stops == {j \in i..high : j = high \/ d[j] = 34}
           next == [j \in i..high |-> IF d[j] = 92 THEN Lexer!After(d, j + 1) ELSE j + 1]
           base == [j \in i..high |-> IF j = high THEN Lexer!Found(FALSE, j) ELSE Lexer!Found(TRUE, j + 1)]
           step == [j \in i..high |-> [r \in Finds |-> r]]
           Is(f) == f = [j \in i..Lexer!end(d) |->
                           IF j = Lexer!end(d) THEN Lexer!Found(FALSE, j)
                           ELSE IF d[j] = Lexer!BACKSLASH THEN f[Lexer!After(d, j + 1)]
                           ELSE IF d[j] = Lexer!QUOTE THEN Lexer!Found(TRUE, j + 1)
                           ELSE f[j + 1]]
<1>1. /\ i \in Int /\ high \in Int /\ i <= high /\ Len(d) \in Nat /\ i >= 1
      /\ \A j \in i..high : j \in Int /\ j >= 1
  BY DEF PlacesOf
<1>2. \A j \in i..high : j = high \/ (j \in 1..Len(d) /\ d[j] \in Int)
  BY <1>1
<1>3. ASSUME NEW j \in i..high, j # high
      PROVE  /\ Lexer!After(d, j + 1) \in j + 1..high /\ j + 1 \in j + 1..high
  <2>1. j \in 1..Len(d) /\ j \in Int
    BY <1>1, <1>2, <1>3
  <2>2. j + 1 \in j + 1..high
    BY <1>1, <2>1
  <2> QED
    BY <2>1, <2>2, BehindEscaped
<1>4. Leads(next, stops, i, high)
  <2>1. ASSUME NEW j \in i..high, j \notin stops PROVE next[j] \in j + 1..high
    <3>1. j # high
      BY <2>1
    <3>2. next[j] = IF d[j] = 92 THEN Lexer!After(d, j + 1) ELSE j + 1
      OBVIOUS
    <3> HIDE DEF next, stops
    <3> QED
      BY <1>3, <3>1, <3>2
  <2> HIDE DEF high, stops, next
  <2> QED
    BY <2>1 DEF Leads
<1>5. base \in Entries(i, high, Finds) /\ step \in Steps(i, high, Finds)
  <2>1. \A j \in Int : Lexer!Found(FALSE, j) \in Finds /\ Lexer!Found(TRUE, j + 1) \in Finds
    BY DEF Finds, Lexer!Found
  <2>2. ASSUME NEW j \in i..high PROVE base[j] \in Finds
    <3>1. j \in Int
      BY <1>1
    <3>2. base[j] = IF j = high THEN Lexer!Found(FALSE, j) ELSE Lexer!Found(TRUE, j + 1)
      OBVIOUS
    <3> HIDE DEF base, high
    <3> QED
      BY <2>1, <3>1, <3>2
  <2>3. base \in Entries(i, high, Finds)
    BY <2>2 DEF Entries
  <2>4. step \in Steps(i, high, Finds)
    BY DEF Steps
  <2> QED
    BY <2>3, <2>4
<1>6. PICK f : Descends(f, i, high, Finds, stops, base, next, step)
  <2> HIDE DEF high, stops, base, next, step
  <2> QED
    BY <1>1, <1>4, <1>5, DescentExists
<1>7. f \in [i..high -> Finds]
  BY <1>6 DEF Descends
<1>8. Lexer!end(d) = high /\ Lexer!BACKSLASH = 92 /\ Lexer!QUOTE = 34
  BY DEF Lexer!end, Lexer!BACKSLASH, Lexer!QUOTE
<1>9. ASSUME NEW j \in i..high
      PROVE  f[j] = IF j = high THEN Lexer!Found(FALSE, j)
                    ELSE IF d[j] = 92 THEN f[Lexer!After(d, j + 1)]
                    ELSE IF d[j] = 34 THEN Lexer!Found(TRUE, j + 1)
                    ELSE f[j + 1]
  <2>1. f[j] = IF j \in stops THEN base[j] ELSE step[j][f[next[j]]]
    BY <1>6 DEF Descends
  <2>2. CASE j \in stops
    <3>1. f[j] = base[j] /\ (j = high \/ d[j] = 34)
      BY <2>1, <2>2
    <3>2. base[j] = IF j = high THEN Lexer!Found(FALSE, j) ELSE Lexer!Found(TRUE, j + 1)
      OBVIOUS
    <3> HIDE DEF base, high, stops
    <3>3. CASE j = high
      BY <3>1, <3>2, <3>3
    <3>4. CASE j # high
      <4>1. d[j] = 34 /\ d[j] # 92
        BY <3>1, <3>4
      <4> QED
        BY <3>1, <3>2, <3>4, <4>1
    <3> QED
      BY <3>3, <3>4
  <2>3. CASE j \notin stops
    <3>1. next[j] \in i..high
      <4>1. next[j] \in j + 1..high
        BY <1>4, <2>3 DEF Leads
      <4>2. j \in Int /\ j >= i
        BY <1>1
      <4> HIDE DEF next, high
      <4> QED
        BY <1>1, <4>1, <4>2
    <3>2. f[next[j]] \in Finds
      BY <1>7, <3>1
    <3>3. f[j] = f[next[j]]
      BY <2>1, <2>3, <3>2
    <3>4. next[j] = IF d[j] = 92 THEN Lexer!After(d, j + 1) ELSE j + 1
      OBVIOUS
    <3>5. j # high /\ d[j] # 34
      BY <2>3
    <3> QED
      BY <3>3, <3>4, <3>5
  <2> QED
    BY <2>2, <2>3
<1>10. Is(f)
  <2> HIDE DEF high
  <2> QED
    BY <1>7, <1>8, <1>9, ZenonT(60)
<1>11. \E g : Is(g)
  BY <1>10
<1>12. PICK g : Is(g) /\ Lexer!readString(d, i) = g[i]
  BY <1>11 DEF Lexer!readString
<1>13. ASSUME NEW j \in i..high
       PROVE  g[j] = IF j = high THEN Lexer!Found(FALSE, j)
                     ELSE IF d[j] = 92 THEN g[Lexer!After(d, j + 1)]
                     ELSE IF d[j] = 34 THEN Lexer!Found(TRUE, j + 1)
                     ELSE g[j + 1]
  <2>1. j \in i..Lexer!end(d)
    BY <1>8
  <2>2. g[j] = IF j = Lexer!end(d) THEN Lexer!Found(FALSE, j)
               ELSE IF d[j] = Lexer!BACKSLASH THEN g[Lexer!After(d, j + 1)]
               ELSE IF d[j] = Lexer!QUOTE THEN Lexer!Found(TRUE, j + 1)
               ELSE g[j + 1]
    <3> HIDE DEF high
    <3> QED
      BY <1>12, <2>1
  <2> HIDE DEF high
  <2> QED
    BY <1>8, <2>2
<1> DEFINE Bad == {m \in 0..high - i : g[high - m].current \notin Positive}
<1>14. Bad = {}
  <2> SUFFICES ASSUME Bad # {} PROVE FALSE
    OBVIOUS
  <2>1. Bad \in SUBSET Nat
    BY <1>1
  <2>2. PICK m \in Bad : \A k \in Bad : m <= k
    <3> HIDE DEF Bad
    <3> QED
      BY <2>1, LeastNumber
  <2> DEFINE j == high - m
  <2>3. j \in i..high /\ j \in Int /\ m \in Int /\ j + 1 \in Positive /\ j \in Positive
    BY <1>1, <2>2 DEF Positive
  <2>4. ASSUME NEW k \in j + 1..high PROVE g[k].current \in Positive
    <3>1. high - k \in 0..high - i /\ high - k < m /\ high - (high - k) = k /\ high - k \in Int
      BY <1>1, <2>3, <2>4
    <3>2. high - k \notin Bad
      BY <2>2, <2>3, <3>1
    <3> QED
      BY <3>1, <3>2
  <2>5. g[j].current \notin Positive
    BY <2>2
  <2>6. Lexer!Found(FALSE, j).current = j /\ Lexer!Found(TRUE, j + 1).current = j + 1
    BY DEF Lexer!Found
  <2> HIDE DEF Bad, j
  <2>7. CASE j = high
    <3>1. g[j] = Lexer!Found(FALSE, j)
      BY <1>13, <2>3, <2>7
    <3> QED
      BY <2>3, <2>5, <2>6, <3>1
  <2>8. CASE j # high
    <3>1. Lexer!After(d, j + 1) \in j + 1..high /\ j + 1 \in j + 1..high
      BY <1>3, <2>3, <2>8
    <3>2. g[j] = IF d[j] = 92 THEN g[Lexer!After(d, j + 1)]
                 ELSE IF d[j] = 34 THEN Lexer!Found(TRUE, j + 1)
                 ELSE g[j + 1]
      BY <1>13, <2>3, <2>8
    <3> HIDE DEF high
    <3> QED
      BY <2>3, <2>4, <2>5, <2>6, <3>1, <3>2
  <2> QED
    BY <2>7, <2>8
<1>15. high - i \in 0..high - i /\ high - (high - i) = i
  BY <1>1
<1>16. g[i].current \in Positive
  BY <1>14, <1>15
<1> QED
  BY <1>12, <1>16

(* Where readToken() begins and that it ends somewhere in the document or behind it. *)
LEMMA TokenTyped ==
  ASSUME NEW d \in Seq(Int), NEW i \in Positive
  PROVE  /\ Lexer!readToken(d, i).start_ = Lexer!skipSpaces(d, i)
         /\ Lexer!readToken(d, i).end_ \in Positive
<1> DEFINE start == Lexer!skipSpaces(d, i)
           c == Lexer!Next_(d, start)
           next == Lexer!After(d, start)
<1>1. start \in Positive /\ next \in PlacesOf(d) /\ next \in Positive
  BY StartIs, AfterWithin, WithinPositive
<1>2. /\ \A t, n : Lexer!Token(t, start, n).start_ = start /\ Lexer!Token(t, start, n).end_ = n
      /\ \A t, r : /\ Lexer!Checked(t, start, r).start_ = start
                   /\ Lexer!Checked(t, start, r).end_ = r.current
  BY DEF Lexer!Token, Lexer!Checked
<1>3. \A b \in DOMAIN Lexer!Words : Lexer!Words[b].rest \in Seq(Int)
  <2>1. <<114, 117, 101>> \in Seq(Int) /\ <<97, 108, 115, 101>> \in Seq(Int) /\ <<117, 108, 108>> \in Seq(Int)
    OBVIOUS
  <2>2. DOMAIN Lexer!Words = {116, 102, 110}
    BY DEF Lexer!Words
  <2>3. /\ Lexer!Words[116].rest = <<114, 117, 101>> /\ Lexer!Words[102].rest = <<97, 108, 115, 101>>
        /\ Lexer!Words[110].rest = <<117, 108, 108>>
    BY DEF Lexer!Words
  <2>4. \A b \in DOMAIN Lexer!Words : b = 116 \/ b = 102 \/ b = 110
    BY <2>2
  <2>5. ASSUME NEW b \in DOMAIN Lexer!Words PROVE Lexer!Words[b].rest \in Seq(Int)
    <3>1. CASE b = 116
      BY <2>1, <2>3, <3>1, ZenonT(60)
    <3>2. CASE b = 102
      BY <2>1, <2>3, <3>2
    <3>3. CASE b = 110
      BY <2>1, <2>3, <3>3
    <3> QED
      BY <2>4, <3>1, <3>2, <3>3
  <2> QED
    BY <2>5
<1>4. /\ Lexer!readString(d, next).current \in Positive
      /\ Lexer!readComment(d, next).current \in Positive
      /\ Lexer!readNumber(d, next) \in Positive
  <2> HIDE DEF next
  <2> QED
    BY <1>1, StringTyped, CommentTyped, NumberTyped
<1>5. \A b \in DOMAIN Lexer!Words : Lexer!match(d, next, Lexer!Words[b].rest).current \in Positive
  <2> HIDE DEF next
  <2> QED
    BY <1>1, <1>3, MatchTyped
<1>6. \/ \E t : Lexer!readToken(d, i) = Lexer!Token(t, start, next)
      \/ \E b \in DOMAIN Lexer!Words : \E t :
           Lexer!readToken(d, i) = Lexer!Checked(t, start, Lexer!match(d, next, Lexer!Words[b].rest))
      \/ Lexer!readToken(d, i) = Lexer!Checked("String", start, Lexer!readString(d, next))
      \/ Lexer!readToken(d, i) = Lexer!Checked("Comment", start, Lexer!readComment(d, next))
      \/ Lexer!readToken(d, i) = Lexer!Token("Number", start, Lexer!readNumber(d, next))
  <2>1. Lexer!readToken(d, i) =
          CASE c \in DOMAIN Lexer!Structural -> Lexer!Token(Lexer!Structural[c], start, next)
            [] c \in DOMAIN Lexer!Words ->
                 Lexer!Checked(Lexer!Words[c].type, start, Lexer!match(d, next, Lexer!Words[c].rest))
            [] c = Lexer!QUOTE -> Lexer!Checked("String", start, Lexer!readString(d, next))
            [] c = Lexer!SLASH -> Lexer!Checked("Comment", start, Lexer!readComment(d, next))
            [] c \in Lexer!DIGITS \cup {Lexer!MINUS} -> Lexer!Token("Number", start, Lexer!readNumber(d, next))
            [] OTHER -> Lexer!Token("Error", start, next)
    BY DEF Lexer!readToken
  <2> HIDE DEF start, c, next
  <2>2. CASE c \in DOMAIN Lexer!Structural
    BY <2>1, <2>2
  <2> QED
    BY <2>1
<1> HIDE DEF start, next
<1>7. CASE \E t : Lexer!readToken(d, i) = Lexer!Token(t, start, next)
  BY <1>1, <1>2, <1>7 DEF start
<1>8. CASE \E b \in DOMAIN Lexer!Words : \E t :
             Lexer!readToken(d, i) = Lexer!Checked(t, start, Lexer!match(d, next, Lexer!Words[b].rest))
  BY <1>2, <1>5, <1>8 DEF start
<1>9. CASE Lexer!readToken(d, i) = Lexer!Checked("String", start, Lexer!readString(d, next))
  BY <1>2, <1>4, <1>9 DEF start
<1>10. CASE Lexer!readToken(d, i) = Lexer!Checked("Comment", start, Lexer!readComment(d, next))
  BY <1>2, <1>4, <1>10 DEF start
<1>11. CASE Lexer!readToken(d, i) = Lexer!Token("Number", start, Lexer!readNumber(d, next))
  BY <1>2, <1>4, <1>11 DEF start
<1> QED
  BY <1>6, <1>7, <1>8, <1>9, <1>10, <1>11

-------------------------------------------------------------------------------
(* The invariant: tokens are what readToken() makes somewhere in the document. *)
LexerInv ==
  /\ document_ \in Seq(Int) /\ current_ \in Positive
  /\ tokens \in Seq({Lexer!readToken(document_, i) : i \in Positive})

LEMMA LexerInvHolds ==
  ASSUME Lexer!LexerAssumption
  PROVE  Lexer!Spec => []LexerInv
<1>1. Lexer!Init => LexerInv
  BY DEF Lexer!Init, LexerInv, Positive, Lexer!LexerAssumption
<1>2. LexerInv /\ [Lexer!Next]_(Lexer!vars) => LexerInv'
  <2> SUFFICES ASSUME LexerInv, [Lexer!Next]_(Lexer!vars) PROVE LexerInv'
    OBVIOUS
  <2>1. CASE Lexer!ReadToken
    <3> DEFINE token == Lexer!readToken(document_, current_)
               All == {Lexer!readToken(document_, i) : i \in Positive}
    <3>1. tokens' = Append(tokens, token) /\ current_' = token.end_ /\ document_' = document_
      BY <2>1 DEF Lexer!ReadToken
    <3>2. document_ \in Seq(Int) /\ current_ \in Positive /\ tokens \in Seq(All)
      BY DEF LexerInv
    <3>3. token.end_ \in Positive
      BY <3>2, TokenTyped
    <3>4. token \in All
      BY <3>2
    <3>5. All' = All
      BY <3>1
    <3> HIDE DEF token, All
    <3>6. Append(tokens, token) \in Seq(All)
      BY <3>2, <3>4
    <3>7. current_' \in Positive /\ document_' \in Seq(Int) /\ tokens' \in Seq(All')
      BY <3>1, <3>2, <3>3, <3>5, <3>6
    <3> QED
      BY <3>7 DEF LexerInv, All
  <2>2. CASE UNCHANGED Lexer!vars
    BY <2>2 DEF Lexer!vars, LexerInv
  <2> QED
    BY <2>1, <2>2 DEF Lexer!Next
<1> QED
  BY <1>1, <1>2, PTL DEF Lexer!Spec

(* Every token is on the line and in the column that the normalised text before it ends with. *)
THEOREM LocationsAlwaysRight ==
  ASSUME Lexer!LexerAssumption
  PROVE  Lexer!Spec => []LocationsAreRight
<1>1. LexerInv => Lexer!LocationsAreRight
  <2> SUFFICES ASSUME LexerInv, NEW k \in 1..Len(tokens)
               PROVE  LET before == Lexer!normalizeEOL(SubSeq(document_, 1, tokens[k].start_ - 1))
                          location == Lexer!getLocationLineAndColumn(document_, tokens[k].start_)
                          feeds == {j \in 1..Len(before) : before[j] = Lexer!LF}
                      IN /\ location.line = Lexer!Cardinality(feeds) + 1
                         /\ location.column = Len(before) - Lexer!Max(feeds \cup {0}) + 1
    BY DEF Lexer!LocationsAreRight
  <2> DEFINE d == document_
             start == tokens[k].start_
             p == SubSeq(d, 1, start - 1)
             before == Lexer!normalizeEOL(p)
             starts == Lexer!LineStarts(d, start)
  <2>1. d \in Seq(Int) /\ Len(d) \in Nat
    BY DEF LexerInv
  <2>2. PICK i \in Positive : tokens[k] = Lexer!readToken(d, i)
    BY DEF LexerInv
  <2>3. start = Lexer!skipSpaces(d, i)
    BY <2>1, <2>2, TokenTyped
  <2>4. start \in 1..Len(d) + 1 /\ (start \in 1..Len(d) => d[start] # 10)
    BY <2>1, <2>3, StartIs DEF PlacesOf
  <2>5. Lexer!At(d, start) # 10
    BY <2>1, <2>4 DEF Lexer!At, Lexer!end, Lexer!LexerAssumption, Lexer!LF
  <2> HIDE DEF start, d
  <2>6. p \in Seq(Int) /\ Len(p) = start - 1 /\ start \in Nat
    BY <2>1, <2>4
  <2>7. starts = StartsOf(p, Len(p))
    BY <2>1, <2>4, <2>5, <2>6, LineStartsAre
  <2> HIDE DEF p
  <2>8. Agree(starts, Len(p), before) /\ before \in Seq(Int)
    BY <2>6, <2>7, NormalizedAgrees
  <2> HIDE DEF before, starts
  <2>9. PICK m \in Int, g \in Int :
           Greatest(starts, m) /\ Greatest(Feeds(before) \cup {0}, g) /\ Len(p) + 1 - m = Len(before) - g
    BY <2>8 DEF Agree
  <2>10. Lexer!Max(starts) = m /\ Lexer!Max(Feeds(before) \cup {0}) = g
    BY <2>9, GreatestIs, LexersSets
  <2>11. Lexer!Cardinality(starts) = Lexer!Cardinality(Feeds(before)) + 1
    BY <2>8, LexersSets DEF Agree
  <2>12. Lexer!getLocationLineAndColumn(d, start) =
           [line |-> Lexer!Cardinality(starts), column |-> start - Lexer!Max(starts) + 1]
    BY DEF Lexer!getLocationLineAndColumn, starts
  <2>13. {j \in 1..Len(before) : before[j] = Lexer!LF} = Feeds(before)
    BY DEF Feeds, Lexer!LF
  <2>14. start - m + 1 = Len(before) - g + 1
    BY <2>6, <2>8, <2>9, SMTT(40)
  <2>15. /\ Lexer!getLocationLineAndColumn(d, start).line = Lexer!Cardinality(Feeds(before)) + 1
         /\ Lexer!getLocationLineAndColumn(d, start).column = Len(before) - Lexer!Max(Feeds(before) \cup {0}) + 1
    BY <2>10, <2>11, <2>12, <2>14
  <2> QED
    BY <2>13, <2>15 DEF before, p, d, start
<1>2. Lexer!LocationsAreRight => LocationsAreRight
  BY DEF LocationsAreRight
<1> QED
  BY <1>1, <1>2, LexerInvHolds, PTL

-------------------------------------------------------------------------------
(* Paths: a node that make() reaches is named by the arguments up to it.   *)

NodeKinds == {"null", "scalar", "array", "object"}
Arguments == {a \in Path!Argument : a.kind_ \in {"index", "key"}}
Nodes == Seq(Path!Argument)
Trees == UNION {[N -> NodeKinds] : N \in SUBSET Nodes}
Mades == [threw : BOOLEAN, at : Nodes, root : Trees]

Fits(kind, arg) == kind \in {"null", Path!Container[arg.kind_]}
Grown(root, at, arg) ==
  Path!With(Path!With(root, at, Path!Container[arg.kind_]), Append(at, arg), Path!kindAt(root, Append(at, arg)))
Made(made, arg) ==
  IF made.threw \/ ~ Fits(made.root[made.at], arg) THEN [made EXCEPT !.threw = TRUE]
  ELSE [threw |-> FALSE, at |-> Append(made.at, arg), root |-> Grown(made.root, made.at, arg)]
Unmade(root) == [threw |-> FALSE, at |-> << >>, root |-> root]

LEMMA ContainerIs ==
  ASSUME NEW arg \in Arguments
  PROVE  Path!Container[arg.kind_] \in {"array", "object"}
<1>1. CASE arg.kind_ = "index"
  BY <1>1 DEF Path!Container
<1>2. CASE arg.kind_ = "key"
  BY <1>2 DEF Path!Container
<1> QED
  BY <1>1, <1>2 DEF Arguments

LEMMA WithTyped ==
  ASSUME NEW root \in Trees, NEW p \in Nodes, NEW kind \in NodeKinds
  PROVE  /\ Path!With(root, p, kind) \in Trees
         /\ DOMAIN Path!With(root, p, kind) = DOMAIN root \cup {p}
         /\ \A q \in DOMAIN root \cup {p} : Path!With(root, p, kind)[q] = IF q = p THEN kind ELSE root[q]
<1>1. PICK N \in SUBSET Nodes : root \in [N -> NodeKinds]
  BY DEF Trees
<1>2. Path!With(root, p, kind) \in [N \cup {p} -> NodeKinds] /\ N \cup {p} \in SUBSET Nodes
  BY <1>1 DEF Path!With
<1>3. Path!With(root, p, kind) \in Trees
  BY <1>2 DEF Trees
<1> QED
  BY <1>3 DEF Path!With

LEMMA GrownTyped ==
  ASSUME NEW root \in Trees, NEW at \in Nodes, NEW arg \in Arguments
  PROVE  /\ Grown(root, at, arg) \in Trees /\ Append(at, arg) \in Nodes /\ Append(at, arg) # at
         /\ DOMAIN Grown(root, at, arg) = DOMAIN root \cup {at, Append(at, arg)}
         /\ Grown(root, at, arg)[Append(at, arg)] = Path!kindAt(root, Append(at, arg))
         /\ Grown(root, at, arg)[at] = Path!Container[arg.kind_]
         /\ \A q \in DOMAIN root \ {at, Append(at, arg)} : Grown(root, at, arg)[q] = root[q]
<1> DEFINE p == Append(at, arg)
           kind == Path!Container[arg.kind_]
           parent == Path!With(root, at, kind)
<1>1. p \in Nodes /\ p # at
  BY DEF Nodes, Arguments
<1>2. kind \in NodeKinds
  BY ContainerIs DEF NodeKinds
<1>3. Path!kindAt(root, p) \in NodeKinds
  <2>1. PICK N \in SUBSET Nodes : root \in [N -> NodeKinds]
    BY DEF Trees
  <2>2. "null" \in NodeKinds
    BY DEF NodeKinds
  <2> QED
    BY <2>1, <2>2 DEF Path!kindAt
<1> HIDE DEF p, kind
<1>4. /\ parent \in Trees /\ DOMAIN parent = DOMAIN root \cup {at}
      /\ \A q \in DOMAIN root \cup {at} : parent[q] = IF q = at THEN kind ELSE root[q]
  BY <1>2, WithTyped
<1> DEFINE grown == Path!With(parent, p, Path!kindAt(root, p))
<1> HIDE DEF parent
<1>5. /\ grown \in Trees /\ DOMAIN grown = DOMAIN parent \cup {p}
      /\ \A q \in DOMAIN parent \cup {p} : grown[q] = IF q = p THEN Path!kindAt(root, p) ELSE parent[q]
  BY <1>1, <1>3, <1>4, WithTyped
<1>6. Grown(root, at, arg) = grown
  BY DEF Grown, parent, p, kind
<1> HIDE DEF grown
<1>7. /\ grown \in Trees /\ DOMAIN grown = DOMAIN root \cup {at, p}
      /\ grown[p] = Path!kindAt(root, p) /\ grown[at] = kind
      /\ \A q \in DOMAIN root \ {at, p} : grown[q] = root[q]
  BY <1>1, <1>4, <1>5
<1> QED
  BY <1>1, <1>6, <1>7 DEF p, kind

LEMMA MadeTyped ==
  ASSUME NEW made \in Mades, NEW arg \in Arguments
  PROVE  Made(made, arg) \in Mades
<1>1. made.root \in Trees /\ made.at \in Nodes
  BY DEF Mades
<1>2. Grown(made.root, made.at, arg) \in Trees /\ Append(made.at, arg) \in Nodes
  BY <1>1, GrownTyped
<1> QED
  BY <1>2 DEF Made, Mades

LEMMA MakeIs ==
  ASSUME NEW root \in Trees, args_ \in Seq(Arguments)
  PROVE  \E f \in [0..Len(args_) -> Mades] :
           /\ f[0] = Unmade(root) /\ Path!make(root) = f[Len(args_)]
           /\ \A k \in 1..Len(args_) : f[k] = Made(f[k - 1], args_[k])
<1> DEFINE n == Len(args_)
           base == Unmade(root)
           step == [i \in 1..n |-> [r \in Mades |-> Made(r, args_[i])]]
           Is(it) == it = [p \in SUBSET DOMAIN args_ |->
                             IF p = {} THEN base ELSE Made(it[p \ {Max(p)}], args_[Max(p)])]
<1>1. n \in Nat /\ DOMAIN args_ = 1..n /\ \A i \in 1..n : args_[i] \in Arguments
  OBVIOUS
<1>2. step \in Turns(n, Mades) /\ base \in Mades
  <2>1. << >> \in Nodes
    BY DEF Nodes
  <2> QED
    BY <1>1, <2>1, MadeTyped DEF Turns, Mades, Unmade
<1>3. PICK it : Iterates(it, n, Mades, base, step)
  <2> HIDE DEF step, base, n
  <2> QED
    BY <1>1, <1>2, FoldExists
<1>4. Is(it)
  <2>1. ASSUME NEW p \in SUBSET (1..n), p # {}
        PROVE  it[p] = Made(it[p \ {Max(p)}], args_[Max(p)])
    <3>1. Max(p) \in 1..n /\ it[p \ {Max(p)}] \in Mades
      BY <2>1, <1>1, <1>3, LastNumber DEF Iterates
    <3> HIDE DEF n, base
    <3>2. it[p] = step[Max(p)][it[p \ {Max(p)}]]
      BY <2>1, <1>3 DEF Iterates
    <3> QED
      BY <3>1, <3>2
  <2>2. \A p \in SUBSET (1..n) : p = {} => it[p] = base
    BY <1>3 DEF Iterates
  <2> HIDE DEF base
  <2> QED
    BY <1>1, <1>3, <2>1, <2>2 DEF Iterates
<1>5. \E g : Is(g)
  BY <1>4
<1>6. PICK g : Is(g) /\ Path!make(root) = g[DOMAIN args_]
  BY <1>5 DEF Path!make, Path!FoldLeft, Path!MapThenFoldSet, Path!Max, Max, Made, Fits, Grown, Unmade
<1>7. \E f : Folds(f, n, Mades, base, step) /\ f[n] = g[1..n]
  <2>1. \A p \in SUBSET (1..n) :
          g[p] = IF p = {} THEN base ELSE Made(g[p \ {Max(p)}], args_[Max(p)])
    BY <1>6, <1>1
  <2>2. ASSUME NEW p \in SUBSET (1..n), p # {}, g[p \ {Max(p)}] \in Mades
        PROVE  g[p] = step[Max(p)][g[p \ {Max(p)}]]
    <3>1. Max(p) \in 1..n
      BY <2>2, <1>1, LastNumber
    <3> QED
      BY <2>1, <2>2, <3>1
  <2>3. g[{}] = base
    BY <2>1
  <2>4. TakesTurns(g, n, Mades, base, step)
    BY <2>2, <2>3 DEF TakesTurns
  <2> HIDE DEF step, Is, n, base
  <2> QED
    BY <1>1, <1>2, <2>4, FoldIs
<1>8. PICK f : Folds(f, n, Mades, base, step) /\ f[n] = g[1..n]
  BY <1>7
<1>9. \A k \in 1..n : f[k] = Made(f[k - 1], args_[k])
  <2>1. \A k \in 1..n : k - 1 \in 0..n
    BY <1>1
  <2>2. \A k \in 1..n : f[k - 1] \in Mades /\ f[k] = step[k][f[k - 1]]
    BY <1>8, <2>1 DEF Folds
  <2> QED
    BY <2>2
<1> QED
  BY <1>1, <1>6, <1>8, <1>9, ZenonT(60) DEF Folds

-------------------------------------------------------------------------------
(* make(): what is created is a null below the last node, until the end.   *)

LEMMA ChildIs ==
  ASSUME NEW at \in Nodes, NEW arg \in Arguments
  PROVE  /\ Append(at, arg) \in Nodes /\ Append(at, arg) # << >>
         /\ Path!Front(Append(at, arg)) = at /\ Path!Last(Append(at, arg)) = arg
         /\ at # Append(at, arg)
BY DEF Nodes, Arguments, Path!Front, Path!Last

LEMMA FrontIs ==
  ASSUME NEW q \in Nodes, q # << >>
  PROVE  Path!Front(q) \in Nodes /\ Path!Front(q) # q /\ Len(Path!Front(q)) = Len(q) - 1
BY DEF Nodes, Path!Front

LEMMA ValueIs ==
  ASSUME NEW root, Path!IsValue(root)
  PROVE  root \in Trees /\ DOMAIN root \subseteq Nodes /\ << >> \in DOMAIN root
BY DEF Path!IsValue, Trees, Nodes, NodeKinds

LEMMA ParentIs ==
  ASSUME NEW root, Path!IsValue(root), NEW q \in DOMAIN root, q # << >>
  PROVE  /\ Path!Last(q).kind_ \in DOMAIN Path!Container /\ Path!Front(q) \in DOMAIN root
         /\ root[Path!Front(q)] = Path!Container[Path!Last(q).kind_]
         /\ root[Path!Front(q)] # "null"
<1>1. /\ Path!Last(q).kind_ \in DOMAIN Path!Container /\ Path!Front(q) \in DOMAIN root
      /\ root[Path!Front(q)] = Path!Container[Path!Last(q).kind_]
  BY DEF Path!IsValue
<1>2. \A k \in DOMAIN Path!Container : Path!Container[k] # "null"
  BY DEF Path!Container
<1> QED
  BY <1>1, <1>2

LEMMA NullHasNoChildren ==
  ASSUME NEW root, Path!IsValue(root), NEW at \in DOMAIN root, root[at] = "null", NEW arg \in Arguments
  PROVE  Append(at, arg) \notin DOMAIN root
<1>1. at \in Nodes
  BY ValueIs
<1>2. Append(at, arg) # << >> /\ Path!Front(Append(at, arg)) = at
  BY <1>1, ChildIs
<1> QED
  BY <1>2, ParentIs

LEMMA GrownIsValue ==
  ASSUME NEW root, Path!IsValue(root), NEW at \in DOMAIN root, NEW arg \in Arguments, Fits(root[at], arg)
  PROVE  Path!IsValue(Grown(root, at, arg))
<1> DEFINE p == Append(at, arg)
           grown == Grown(root, at, arg)
<1>1. root \in Trees /\ at \in Nodes /\ << >> \in DOMAIN root /\ DOMAIN root \subseteq Nodes
  BY ValueIs
<1>2. p \in Nodes /\ p # << >> /\ Path!Front(p) = at /\ Path!Last(p) = arg /\ at # p
  BY <1>1, ChildIs
<1>3. /\ grown \in Trees /\ DOMAIN grown = DOMAIN root \cup {p}
      /\ grown[p] = Path!kindAt(root, p) /\ grown[at] = Path!Container[arg.kind_]
      /\ \A q \in DOMAIN root \ {at, p} : grown[q] = root[q]
  <2>1. /\ grown \in Trees /\ DOMAIN grown = DOMAIN root \cup {at, p}
        /\ grown[p] = Path!kindAt(root, p) /\ grown[at] = Path!Container[arg.kind_]
        /\ \A q \in DOMAIN root \ {at, p} : grown[q] = root[q]
    BY <1>1, GrownTyped, ZenonT(60)
  <2> HIDE DEF p, grown
  <2>2. DOMAIN root \cup {at, p} = DOMAIN root \cup {p}
    OBVIOUS
  <2> QED
    BY <2>1, <2>2
<1> HIDE DEF p, grown
<1>4. ASSUME NEW q \in DOMAIN root
      PROVE  q = at \/ grown[q] = root[q]
  BY <1>2, <1>3 DEF Path!kindAt
<1>5. ASSUME NEW q \in DOMAIN grown \ {<< >>}
      PROVE  /\ Path!Last(q).kind_ \in DOMAIN Path!Container /\ Path!Front(q) \in DOMAIN grown
             /\ grown[Path!Front(q)] = Path!Container[Path!Last(q).kind_]
  <2>1. CASE q = p
    <3>1. arg.kind_ \in DOMAIN Path!Container
      BY DEF Arguments, Path!Container
    <3> QED
      BY <2>1, <3>1, <1>2, <1>3
  <2>2. CASE q # p
    <3>1. q \in DOMAIN root /\ q # << >>
      BY <2>2, <1>3
    <3>2. /\ Path!Last(q).kind_ \in DOMAIN Path!Container /\ Path!Front(q) \in DOMAIN root
          /\ root[Path!Front(q)] = Path!Container[Path!Last(q).kind_]
          /\ root[Path!Front(q)] # "null"
      BY <3>1, ParentIs
    <3>3. CASE Path!Front(q) = at
      BY <3>2, <3>3, <1>3 DEF Fits
    <3>4. CASE Path!Front(q) # at
      BY <3>2, <3>4, <1>3, <1>4
    <3> QED
      BY <3>3, <3>4
  <2> QED
    BY <2>1, <2>2
<1>6. grown \in [DOMAIN grown -> NodeKinds] /\ DOMAIN grown \subseteq Nodes
  BY <1>3 DEF Trees
<1> QED
  BY <1>1, <1>3, <1>5, <1>6 DEF Path!IsValue, NodeKinds, Nodes, grown

LEMMA GrownIsSame ==
  ASSUME NEW root, Path!IsValue(root), NEW at \in DOMAIN root, NEW arg \in Arguments,
         root[at] = Path!Container[arg.kind_], Append(at, arg) \in DOMAIN root
  PROVE  Grown(root, at, arg) = root
<1> DEFINE p == Append(at, arg)
           grown == Grown(root, at, arg)
<1>1. root \in Trees /\ at \in Nodes
  BY ValueIs
<1>2. /\ grown \in Trees /\ DOMAIN grown = DOMAIN root \cup {at, p}
      /\ grown[p] = Path!kindAt(root, p) /\ grown[at] = Path!Container[arg.kind_]
      /\ \A q \in DOMAIN root \ {at, p} : grown[q] = root[q]
  BY <1>1, GrownTyped, ZenonT(60)
<1> HIDE DEF grown
<1>3. DOMAIN grown = DOMAIN root /\ \A q \in DOMAIN root : grown[q] = root[q]
  BY <1>2 DEF Path!kindAt
<1>4. grown \in [DOMAIN grown -> NodeKinds] /\ root \in [DOMAIN root -> NodeKinds]
  BY <1>1, <1>2 DEF Trees
<1>5. grown = root
  BY <1>3, <1>4
<1> QED
  BY <1>5 DEF grown

(* Half way down the path. *)
Underway(root, made, at) ==
  /\ made \in Mades
  /\ made.threw => made.root = root
  /\ ~ made.threw =>
       /\ made.at = at /\ at \in DOMAIN made.root /\ Path!IsValue(made.root)
       /\ made.root = root \/ made.root[at] = "null"
       /\ \A p \in DOMAIN root : p \in DOMAIN made.root /\ root[p] \in {"null", made.root[p]}

LEMMA UnderwayAtStart ==
  ASSUME NEW root, Path!IsValue(root)
  PROVE  Underway(root, Unmade(root), << >>)
<1>1. root \in Trees /\ << >> \in DOMAIN root /\ << >> \in Nodes
  BY ValueIs DEF Nodes
<1> QED
  BY <1>1 DEF Underway, Unmade, Mades

LEMMA UnderwayOn ==
  ASSUME NEW root, NEW made, NEW at, NEW arg \in Arguments, Underway(root, made, at)
  PROVE  Underway(root, Made(made, arg), Append(at, arg))
<1>1. made \in Mades /\ made.root \in Trees /\ made.at \in Nodes
  BY DEF Underway, Mades
<1>2. Made(made, arg) \in Mades
  BY <1>1, MadeTyped
<1>3. CASE made.threw
  BY <1>2, <1>3, <1>1 DEF Underway, Made, Mades
<1>4. CASE ~ made.threw /\ ~ Fits(made.root[made.at], arg)
  <2>1. made.root = root
    BY <1>4 DEF Underway, Fits
  <2> QED
    BY <1>1, <1>2, <1>4, <2>1 DEF Underway, Made, Mades
<1>5. CASE ~ made.threw /\ Fits(made.root[made.at], arg)
  <2> DEFINE r == made.root
             p == Append(at, arg)
             grown == Grown(r, at, arg)
  <2>1. /\ made.at = at /\ at \in DOMAIN r /\ Path!IsValue(r) /\ (r = root \/ r[at] = "null") /\ Fits(r[at], arg)
        /\ \A q \in DOMAIN root : q \in DOMAIN r /\ root[q] \in {"null", r[q]}
    BY <1>5 DEF Underway
  <2>2. Made(made, arg) = [threw |-> FALSE, at |-> p, root |-> grown]
    BY <1>5, <2>1 DEF Made
  <2>3. at \in Nodes /\ r \in Trees
    BY <1>1, <2>1
  <2> HIDE DEF r
  <2>4. /\ grown \in Trees /\ DOMAIN grown = DOMAIN r \cup {at, p} /\ p # at
        /\ grown[p] = Path!kindAt(r, p) /\ grown[at] = Path!Container[arg.kind_]
        /\ \A q \in DOMAIN r \ {at, p} : grown[q] = r[q]
    BY <2>3, GrownTyped, ZenonT(60)
  <2>5. Path!IsValue(grown)
    BY <2>1, GrownIsValue
  <2>6. grown = root \/ grown[p] = "null"
    <3>1. CASE p \notin DOMAIN r
      BY <3>1, <2>4 DEF Path!kindAt
    <3>2. CASE p \in DOMAIN r
      <4>1. r[at] # "null"
        BY <3>2, <2>1, NullHasNoChildren
      <4>2. r[at] = Path!Container[arg.kind_] /\ r = root
        BY <4>1, <2>1 DEF Fits
      <4>3. grown = r
        BY <3>2, <4>2, <2>1, GrownIsSame
      <4> QED
        BY <4>2, <4>3
    <3> QED
      BY <3>1, <3>2
  <2>7. ASSUME NEW q \in DOMAIN root
        PROVE  q \in DOMAIN grown /\ root[q] \in {"null", grown[q]}
    <3>1. q \in DOMAIN r /\ root[q] \in {"null", r[q]}
      BY <2>1
    <3>2. CASE q = at
      BY <3>1, <3>2, <2>1, <2>4 DEF Fits
    <3>3. CASE q = p
      BY <3>1, <3>3, <2>4 DEF Path!kindAt
    <3>4. CASE q \notin {at, p}
      BY <3>1, <3>4, <2>4
    <3> QED
      BY <3>2, <3>3, <3>4
  <2> HIDE DEF grown, p
  <2>8. Underway(root, [threw |-> FALSE, at |-> p, root |-> grown], p)
    BY <1>2, <2>2, <2>4, <2>5, <2>6, <2>7 DEF Underway
  <2> QED
    BY <2>2, <2>8 DEF p
<1> QED
  BY <1>3, <1>4, <1>5

LEMMA MakeComesTo ==
  ASSUME NEW root, Path!IsValue(root), args_ \in Seq(Arguments)
  PROVE  Underway(root, Path!make(root), args_)
<1> DEFINE n == Len(args_)
<1>1. PICK f \in [0..n -> Mades] :
           /\ f[0] = Unmade(root) /\ Path!make(root) = f[n]
           /\ \A k \in 1..n : f[k] = Made(f[k - 1], args_[k])
  BY ValueIs, MakeIs, SMTT(40)
<1> DEFINE K == {k \in Nat : k <= n => Underway(root, f[k], SubSeq(args_, 1, k))}
<1>2. 0 \in K
  <2>1. SubSeq(args_, 1, 0) = << >>
    OBVIOUS
  <2> QED
    BY <1>1, <2>1, UnderwayAtStart
<1>3. ASSUME NEW k \in Nat, k \in K PROVE k + 1 \in K
  <2> SUFFICES ASSUME k + 1 <= n PROVE Underway(root, f[k + 1], SubSeq(args_, 1, k + 1))
    OBVIOUS
  <2>1. k + 1 \in 1..n /\ (k + 1) - 1 = k /\ args_[k + 1] \in Arguments /\ k <= n
    OBVIOUS
  <2>2. SubSeq(args_, 1, k + 1) = Append(SubSeq(args_, 1, k), args_[k + 1])
    BY <2>1
  <2>3. f[k + 1] = Made(f[k], args_[k + 1])
    BY <1>1, <2>1
  <2>4. Underway(root, f[k], SubSeq(args_, 1, k))
    BY <1>3, <2>1
  <2>5. Underway(root, Made(f[k], args_[k + 1]), Append(SubSeq(args_, 1, k), args_[k + 1]))
    BY <2>1, <2>4, UnderwayOn
  <2> QED
    BY <2>2, <2>3, <2>5
<1>4. n \in K
  <2> HIDE DEF K
  <2>1. n \in Nat
    OBVIOUS
  <2> QED
    BY <1>2, <1>3, <2>1, SetInduction
<1>5. SubSeq(args_, 1, n) = args_
  OBVIOUS
<1>6. Underway(root, f[n], SubSeq(args_, 1, n))
  BY <1>4
<1> QED
  BY <1>1, <1>5, <1>6, Zenon

-------------------------------------------------------------------------------
(* resolve(): a node of a value is found by its own name. *)

Founds == [found : BOOLEAN, threw : BOOLEAN, at : Nodes]
Resolved(root, node, arg) ==
  IF node.threw \/ Path!kindOf(root, node) \notin {"null", Path!Container[arg.kind_]} THEN Path!Threw
  ELSE Path!Child(root, node, arg)
ResolvedOr(root, node, arg) ==
  IF ~ node.found \/ Path!kindOf(root, node) # Path!Container[arg.kind_] THEN Path!Nowhere
  ELSE IF arg.kind_ = "index" /\ ~ Path!isValidIndex(root, node.at, arg.index_) THEN Path!Nowhere
  ELSE Path!Child(root, node, arg)

LEMMA ResolvedTyped ==
  /\ Path!At(<< >>) \in Founds
  /\ \A root : \A node \in Founds, arg \in Arguments :
        Resolved(root, node, arg) \in Founds /\ ResolvedOr(root, node, arg) \in Founds
<1>1. << >> \in Nodes
  BY DEF Nodes
<1>2. Path!At(<< >>) \in Founds /\ Path!Nowhere \in Founds /\ Path!Threw \in Founds
  BY <1>1 DEF Founds, Path!At, Path!Nowhere, Path!Threw
<1>3. ASSUME NEW root, NEW node \in Founds, NEW arg \in Arguments
      PROVE  Resolved(root, node, arg) \in Founds /\ ResolvedOr(root, node, arg) \in Founds
  <2>1. Append(node.at, arg) \in Nodes
    BY ChildIs DEF Founds
  <2>2. Path!At(Append(node.at, arg)) \in Founds
    BY <2>1 DEF Path!At, Founds
  <2>3. Path!Child(root, node, arg) \in Founds
    BY <1>2, <2>2 DEF Path!Child
  <2> QED
    BY <1>2, <2>3 DEF Resolved, ResolvedOr
<1> QED
  BY <1>2, <1>3

LEMMA ResolveIs ==
  ASSUME NEW root, args_ \in Seq(Arguments)
  PROVE  \E f \in [0..Len(args_) -> Founds] :
           /\ f[0] = Path!At(<< >>) /\ Path!resolve(root) = f[Len(args_)]
           /\ \A k \in 1..Len(args_) : f[k] = Resolved(root, f[k - 1], args_[k])
<1> DEFINE n == Len(args_)
           base == Path!At(<< >>)
           step == [i \in 1..n |-> [r \in Founds |-> Resolved(root, r, args_[i])]]
           Is(it) == it = [p \in SUBSET DOMAIN args_ |->
                             IF p = {} THEN base ELSE Resolved(root, it[p \ {Max(p)}], args_[Max(p)])]
<1>1. n \in Nat /\ DOMAIN args_ = 1..n /\ \A i \in 1..n : args_[i] \in Arguments
  OBVIOUS
<1>2. step \in Turns(n, Founds) /\ base \in Founds
  BY <1>1, ResolvedTyped DEF Turns
<1>3. PICK it : Iterates(it, n, Founds, base, step)
  <2> HIDE DEF step, base, n
  <2> QED
    BY <1>1, <1>2, FoldExists
<1>4. Is(it)
  <2>1. ASSUME NEW p \in SUBSET (1..n), p # {}
        PROVE  it[p] = Resolved(root, it[p \ {Max(p)}], args_[Max(p)])
    <3>1. Max(p) \in 1..n /\ it[p \ {Max(p)}] \in Founds
      BY <2>1, <1>1, <1>3, LastNumber DEF Iterates
    <3> HIDE DEF n, base
    <3>2. it[p] = step[Max(p)][it[p \ {Max(p)}]]
      BY <2>1, <1>3 DEF Iterates
    <3> QED
      BY <3>1, <3>2
  <2>2. \A p \in SUBSET (1..n) : p = {} => it[p] = base
    BY <1>3 DEF Iterates
  <2> HIDE DEF base
  <2> QED
    BY <1>1, <1>3, <2>1, <2>2 DEF Iterates
<1>5. \E g : Is(g)
  BY <1>4
<1>6. PICK g : Is(g) /\ Path!resolve(root) = g[DOMAIN args_]
  BY <1>5 DEF Path!resolve, Path!FoldLeft, Path!MapThenFoldSet, Path!Max, Max, Resolved
<1>7. \E f : Folds(f, n, Founds, base, step) /\ f[n] = g[1..n]
  <2>1. \A p \in SUBSET (1..n) :
          g[p] = IF p = {} THEN base ELSE Resolved(root, g[p \ {Max(p)}], args_[Max(p)])
    BY <1>6, <1>1
  <2>2. ASSUME NEW p \in SUBSET (1..n), p # {}, g[p \ {Max(p)}] \in Founds
        PROVE  g[p] = step[Max(p)][g[p \ {Max(p)}]]
    <3>1. Max(p) \in 1..n
      BY <2>2, <1>1, LastNumber
    <3> QED
      BY <2>1, <2>2, <3>1
  <2>3. g[{}] = base
    BY <2>1
  <2>4. TakesTurns(g, n, Founds, base, step)
    BY <2>2, <2>3 DEF TakesTurns
  <2> HIDE DEF step, Is, n, base
  <2> QED
    BY <1>1, <1>2, <2>4, FoldIs
<1>8. PICK f : Folds(f, n, Founds, base, step) /\ f[n] = g[1..n]
  BY <1>7
<1>9. \A k \in 1..n : f[k] = Resolved(root, f[k - 1], args_[k])
  <2>1. \A k \in 1..n : k - 1 \in 0..n
    BY <1>1
  <2>2. \A k \in 1..n : f[k - 1] \in Founds /\ f[k] = step[k][f[k - 1]]
    BY <1>8, <2>1 DEF Folds
  <2> QED
    BY <2>2
<1> QED
  BY <1>1, <1>6, <1>8, <1>9, ZenonT(60) DEF Folds

LEMMA ResolveOrIs ==
  ASSUME NEW root, args_ \in Seq(Arguments)
  PROVE  \E f \in [0..Len(args_) -> Founds] :
           /\ f[0] = Path!At(<< >>) /\ Path!resolveOr(root) = f[Len(args_)]
           /\ \A k \in 1..Len(args_) : f[k] = ResolvedOr(root, f[k - 1], args_[k])
<1> DEFINE n == Len(args_)
           base == Path!At(<< >>)
           step == [i \in 1..n |-> [r \in Founds |-> ResolvedOr(root, r, args_[i])]]
           Is(it) == it = [p \in SUBSET DOMAIN args_ |->
                             IF p = {} THEN base ELSE ResolvedOr(root, it[p \ {Max(p)}], args_[Max(p)])]
<1>1. n \in Nat /\ DOMAIN args_ = 1..n /\ \A i \in 1..n : args_[i] \in Arguments
  OBVIOUS
<1>2. step \in Turns(n, Founds) /\ base \in Founds
  BY <1>1, ResolvedTyped DEF Turns
<1>3. PICK it : Iterates(it, n, Founds, base, step)
  <2> HIDE DEF step, base, n
  <2> QED
    BY <1>1, <1>2, FoldExists
<1>4. Is(it)
  <2>1. ASSUME NEW p \in SUBSET (1..n), p # {}
        PROVE  it[p] = ResolvedOr(root, it[p \ {Max(p)}], args_[Max(p)])
    <3>1. Max(p) \in 1..n /\ it[p \ {Max(p)}] \in Founds
      BY <2>1, <1>1, <1>3, LastNumber DEF Iterates
    <3> HIDE DEF n, base
    <3>2. it[p] = step[Max(p)][it[p \ {Max(p)}]]
      BY <2>1, <1>3 DEF Iterates
    <3> QED
      BY <3>1, <3>2
  <2>2. \A p \in SUBSET (1..n) : p = {} => it[p] = base
    BY <1>3 DEF Iterates
  <2> HIDE DEF base
  <2> QED
    BY <1>1, <1>3, <2>1, <2>2 DEF Iterates
<1>5. \E g : Is(g)
  BY <1>4
<1>6. PICK g : Is(g) /\ Path!resolveOr(root) = g[DOMAIN args_]
  BY <1>5 DEF Path!resolveOr, Path!FoldLeft, Path!MapThenFoldSet, Path!Max, Max, ResolvedOr
<1>7. \E f : Folds(f, n, Founds, base, step) /\ f[n] = g[1..n]
  <2>1. \A p \in SUBSET (1..n) :
          g[p] = IF p = {} THEN base ELSE ResolvedOr(root, g[p \ {Max(p)}], args_[Max(p)])
    BY <1>6, <1>1
  <2>2. ASSUME NEW p \in SUBSET (1..n), p # {}, g[p \ {Max(p)}] \in Founds
        PROVE  g[p] = step[Max(p)][g[p \ {Max(p)}]]
    <3>1. Max(p) \in 1..n
      BY <2>2, <1>1, LastNumber
    <3> QED
      BY <2>1, <2>2, <3>1
  <2>3. g[{}] = base
    BY <2>1
  <2>4. TakesTurns(g, n, Founds, base, step)
    BY <2>2, <2>3 DEF TakesTurns
  <2> HIDE DEF step, Is, n, base
  <2> QED
    BY <1>1, <1>2, <2>4, FoldIs
<1>8. PICK f : Folds(f, n, Founds, base, step) /\ f[n] = g[1..n]
  BY <1>7
<1>9. \A k \in 1..n : f[k] = ResolvedOr(root, f[k - 1], args_[k])
  <2>1. \A k \in 1..n : k - 1 \in 0..n
    BY <1>1
  <2>2. \A k \in 1..n : f[k - 1] \in Founds /\ f[k] = step[k][f[k - 1]]
    BY <1>8, <2>1 DEF Folds
  <2> QED
    BY <2>2
<1> QED
  BY <1>1, <1>6, <1>8, <1>9, ZenonT(60) DEF Folds

(* All of the way to a node leads over containers of the right kind. *)
LEMMA WayThere ==
  ASSUME NEW root, Path!IsValue(root), args_ \in Seq(Arguments), args_ \in DOMAIN root
  PROVE  /\ \A k \in 0..Len(args_) : SubSeq(args_, 1, k) \in DOMAIN root
         /\ \A k \in 1..Len(args_) :
               /\ SubSeq(args_, 1, k) = Append(SubSeq(args_, 1, k - 1), args_[k])
               /\ root[SubSeq(args_, 1, k - 1)] = Path!Container[args_[k].kind_]
<1> DEFINE n == Len(args_)
           K == {m \in Nat : m <= n => SubSeq(args_, 1, n - m) \in DOMAIN root}
<1>1. ASSUME NEW k \in 1..n
      PROVE  /\ SubSeq(args_, 1, k) = Append(SubSeq(args_, 1, k - 1), args_[k])
             /\ SubSeq(args_, 1, k) # << >>
             /\ Path!Front(SubSeq(args_, 1, k)) = SubSeq(args_, 1, k - 1)
             /\ Path!Last(SubSeq(args_, 1, k)) = args_[k]
  <2> DEFINE s == SubSeq(args_, 1, k)
  <2>1. s \in Seq(Arguments) /\ Len(s) = k /\ (\A i \in 1..k : s[i] = args_[i]) /\ k >= 1
    OBVIOUS
  <2>2. s = Append(SubSeq(args_, 1, k - 1), args_[k])
    OBVIOUS
  <2> DEFINE t == SubSeq(args_, 1, k - 1)
  <2>3. t \in Seq(Arguments) /\ Len(t) = k - 1 /\ (\A i \in 1..k - 1 : t[i] = args_[i])
    OBVIOUS
  <2> HIDE DEF s, t
  <2>4. SubSeq(s, 1, Len(s) - 1) = t
    BY <2>1, <2>3
  <2>5. s # << >> /\ s[Len(s)] = args_[k]
    BY <2>1
  <2> QED
    BY <2>2, <2>4, <2>5 DEF s, t, Path!Front, Path!Last
<1>2. 0 \in K
  <2>1. SubSeq(args_, 1, n) = args_ /\ n - 0 = n
    OBVIOUS
  <2>2. SubSeq(args_, 1, n - 0) \in DOMAIN root
    BY <2>1, Zenon
  <2> QED
    BY <2>2
<1>3. ASSUME NEW m \in Nat, m \in K PROVE m + 1 \in K
  <2> SUFFICES ASSUME m + 1 <= n PROVE SubSeq(args_, 1, n - (m + 1)) \in DOMAIN root
    OBVIOUS
  <2>1. n - m \in 1..n /\ (n - m) - 1 = n - (m + 1) /\ m <= n
    OBVIOUS
  <2>2. SubSeq(args_, 1, n - m) \in DOMAIN root
    BY <1>3, <2>1
  <2>3. Path!Front(SubSeq(args_, 1, n - m)) = SubSeq(args_, 1, (n - m) - 1) /\ SubSeq(args_, 1, n - m) # << >>
    BY <1>1, <2>1
  <2>4. Path!Front(SubSeq(args_, 1, n - m)) \in DOMAIN root
    BY <2>2, <2>3, ParentIs
  <2> QED
    BY <2>1, <2>3, <2>4
<1>4. \A m \in Nat : m \in K
  <2> HIDE DEF K
  <2> QED
    BY <1>2, <1>3, SetInduction
<1>5. ASSUME NEW k \in 0..n PROVE SubSeq(args_, 1, k) \in DOMAIN root
  <2>1. n - k \in Nat /\ n - (n - k) = k /\ n - k <= n
    OBVIOUS
  <2>2. SubSeq(args_, 1, n - (n - k)) \in DOMAIN root
    BY <1>4, <2>1
  <2> QED
    BY <2>1, <2>2
<1>6. ASSUME NEW k \in 1..n
      PROVE  root[SubSeq(args_, 1, k - 1)] = Path!Container[args_[k].kind_]
  <2> DEFINE q == SubSeq(args_, 1, k)
  <2>1. q \in DOMAIN root
    BY <1>5
  <2>2. q # << >> /\ Path!Front(q) = SubSeq(args_, 1, k - 1) /\ Path!Last(q) = args_[k]
    BY <1>1
  <2> HIDE DEF q
  <2>3. root[Path!Front(q)] = Path!Container[Path!Last(q).kind_]
    BY <2>1, <2>2, ParentIs
  <2> QED
    BY <2>2, <2>3
<1> QED
  BY <1>1, <1>5, <1>6

LEMMA FoundOn ==
  ASSUME NEW root, Path!IsValue(root), NEW at \in DOMAIN root, NEW arg \in Arguments,
         Append(at, arg) \in DOMAIN root, root[at] = Path!Container[arg.kind_]
  PROVE  /\ Resolved(root, Path!At(at), arg) = Path!At(Append(at, arg))
         /\ ResolvedOr(root, Path!At(at), arg) = Path!At(Append(at, arg))
<1>1. /\ Path!At(at).found /\ ~ Path!At(at).threw /\ Path!At(at).at = at
      /\ Path!kindOf(root, Path!At(at)) = Path!Container[arg.kind_]
  BY DEF Path!At, Path!kindOf
<1>2. Path!Child(root, Path!At(at), arg) = Path!At(Append(at, arg))
  BY <1>1 DEF Path!Child
<1>3. Path!isValidIndex(root, at, arg.index_)
  <2> DEFINE p == Append(at, arg)
  <2>1. at \in Nodes /\ p \in DOMAIN root /\ p \in Nodes
    BY ValueIs
  <2>2. Len(p) = Len(at) + 1 /\ Path!IsPrefix(at, p)
    BY <2>1 DEF Path!IsPrefix, Nodes, Arguments
  <2>3. Path!Last(p).index_ >= arg.index_
    <3>1. Path!Last(p) = arg /\ arg.index_ \in Int
      BY <2>1, ChildIs DEF Arguments, Path!Argument
    <3> QED
      BY <3>1
  <2> QED
    BY <2>1, <2>2, <2>3 DEF Path!isValidIndex, Path!Places
<1> QED
  BY <1>1, <1>2, <1>3 DEF Resolved, ResolvedOr

LEMMA FoundByName ==
  ASSUME NEW root, Path!IsValue(root), args_ \in Seq(Arguments), args_ \in DOMAIN root
  PROVE  Path!resolve(root) = Path!At(args_) /\ Path!resolveOr(root) = Path!At(args_)
<1> DEFINE n == Len(args_)
<1>1. PICK f \in [0..n -> Founds] :
           /\ f[0] = Path!At(<< >>) /\ Path!resolve(root) = f[n]
           /\ \A k \in 1..n : f[k] = Resolved(root, f[k - 1], args_[k])
  BY ResolveIs
<1>2. PICK g \in [0..n -> Founds] :
           /\ g[0] = Path!At(<< >>) /\ Path!resolveOr(root) = g[n]
           /\ \A k \in 1..n : g[k] = ResolvedOr(root, g[k - 1], args_[k])
  BY ResolveOrIs
<1> DEFINE K == {k \in Nat : k <= n => /\ f[k] = Path!At(SubSeq(args_, 1, k))
                                      /\ g[k] = Path!At(SubSeq(args_, 1, k))}
<1>3. 0 \in K
  <2>1. SubSeq(args_, 1, 0) = << >>
    OBVIOUS
  <2> QED
    BY <1>1, <1>2, <2>1
<1>4. ASSUME NEW k \in Nat, k \in K PROVE k + 1 \in K
  <2> SUFFICES ASSUME k + 1 <= n
               PROVE  /\ f[k + 1] = Path!At(SubSeq(args_, 1, k + 1))
                      /\ g[k + 1] = Path!At(SubSeq(args_, 1, k + 1))
    OBVIOUS
  <2> DEFINE at == SubSeq(args_, 1, k)
             arg == args_[k + 1]
  <2>1. k + 1 \in 1..n /\ (k + 1) - 1 = k /\ k \in 0..n /\ k + 1 \in 0..n /\ arg \in Arguments /\ k <= n
    OBVIOUS
  <2>2. /\ at \in DOMAIN root /\ SubSeq(args_, 1, k + 1) \in DOMAIN root
        /\ SubSeq(args_, 1, k + 1) = Append(at, arg) /\ root[at] = Path!Container[arg.kind_]
    BY <2>1, WayThere
  <2>3. f[k] = Path!At(at) /\ g[k] = Path!At(at)
    BY <1>4, <2>1
  <2>4. f[k + 1] = Resolved(root, f[k], arg) /\ g[k + 1] = ResolvedOr(root, g[k], arg)
    BY <1>1, <1>2, <2>1
  <2> HIDE DEF at, arg
  <2>5. /\ Resolved(root, Path!At(at), arg) = Path!At(Append(at, arg))
        /\ ResolvedOr(root, Path!At(at), arg) = Path!At(Append(at, arg))
    BY <2>1, <2>2, FoundOn
  <2> QED
    BY <2>2, <2>3, <2>4, <2>5
<1>5. n \in K
  <2> HIDE DEF K
  <2>1. n \in Nat
    OBVIOUS
  <2> QED
    BY <1>3, <1>4, <2>1, SetInduction
<1>6. SubSeq(args_, 1, n) = args_
  OBVIOUS
<1>7. f[n] = Path!At(SubSeq(args_, 1, n)) /\ g[n] = Path!At(SubSeq(args_, 1, n))
  BY <1>5
<1> QED
  BY <1>1, <1>2, <1>6, <1>7, Zenon

-------------------------------------------------------------------------------
(* makePath(): a turn of the loop at a documented segment. *)

(* A sequence up to the first place that stops. *)
Before(rest, stops) == IF stops = {} THEN rest ELSE SubSeq(rest, 1, Path!Min(stops) - 1)

LEMMA FirstStop ==
  ASSUME NEW n \in Nat, NEW stops \in SUBSET (1..n), stops # {}
  PROVE  Path!Min(stops) \in stops /\ \A i \in stops : Path!Min(stops) <= i
<1>1. stops \in SUBSET Nat
  OBVIOUS
<1>2. \E x \in stops : \A y \in stops : x <= y
  BY <1>1, LeastNumber
<1> QED
  BY <1>2 DEF Path!Min

LEMMA BeforeTyped ==
  ASSUME NEW C, NEW rest \in Seq(C), NEW stops \in SUBSET (1..Len(rest))
  PROVE  /\ Before(rest, stops) \in Seq(C)
         /\ \A i \in 1..Len(Before(rest, stops)) :
              i \in 1..Len(rest) /\ i \notin stops /\ Before(rest, stops)[i] = rest[i]
<1>1. CASE stops = {}
  BY <1>1 DEF Before
<1>2. CASE stops # {}
  <2> DEFINE m == Path!Min(stops)
  <2>0. Len(rest) \in Nat
    OBVIOUS
  <2>1. m \in stops /\ \A i \in stops : m <= i
    BY <2>0, <1>2, FirstStop
  <2>2. m \in 1..Len(rest)
    BY <2>1
  <2> HIDE DEF m
  <2>3. SubSeq(rest, 1, m - 1) \in Seq(C) /\ Len(SubSeq(rest, 1, m - 1)) = m - 1
    BY <2>2
  <2>4. \A i \in 1..m - 1 : SubSeq(rest, 1, m - 1)[i] = rest[i] /\ i \in 1..Len(rest) /\ i \notin stops
    BY <2>1, <2>2
  <2>5. Before(rest, stops) = SubSeq(rest, 1, m - 1)
    BY <1>2 DEF Before, m
  <2> QED
    BY <2>3, <2>4, <2>5
<1> QED
  BY <1>1, <1>2

LEMMA BeforeIs ==
  ASSUME NEW C, NEW rest \in Seq(C), NEW stops \in SUBSET (1..Len(rest)), NEW m \in 0..Len(rest),
         \A i \in 1..m : i \notin stops, m = Len(rest) \/ m + 1 \in stops
  PROVE  Before(rest, stops) = SubSeq(rest, 1, m)
<1>1. CASE m = Len(rest)
  <2>1. stops = {}
    BY <1>1
  <2>2. SubSeq(rest, 1, m) = rest
    BY <1>1
  <2> QED
    BY <2>1, <2>2 DEF Before
<1>2. CASE m + 1 \in stops
  <2>0. Len(rest) \in Nat /\ stops # {}
    BY <1>2
  <2>1. Path!Min(stops) \in stops /\ \A i \in stops : Path!Min(stops) <= i
    BY <2>0, FirstStop
  <2> DEFINE x == Path!Min(stops)
  <2>4. x \in 1..Len(rest) /\ x \notin 1..m /\ x <= m + 1
    BY <2>1, <1>2
  <2> HIDE DEF x
  <2>5. x = m + 1
    BY <2>4
  <2>2. Path!Min(stops) = m + 1
    BY <2>5 DEF x
  <2>3. (m + 1) - 1 = m
    OBVIOUS
  <2> QED
    BY <2>0, <2>2, <2>3 DEF Before
<1> QED
  BY <1>1, <1>2

(* What a name, and what an index, reads of the expression. *)
Rest(i) == SubSeq(path, i, Len(path))
NameStops == {i \in 1..Len(Rest(current)) : ~ Path!InName(Rest(current)[i])}
DigitStops == {i \in 1..Len(Rest(current + 1)) : Rest(current + 1)[i] \notin DOMAIN Path!DigitOf}

LEMMA RunsAre ==
  /\ Path!RunOf(Path!InName) = Before(Rest(current), NameStops)
  /\ Path!Digits = Before(Rest(current + 1), DigitStops)
<1>1. Path!RunOf(Path!InName) = Before(Rest(current), NameStops)
  BY DEF Path!RunOf, Before, Rest, NameStops
<1>2. Path!Digits = Before(Rest(current + 1), DigitStops)
  BY DEF Path!Digits, Before, Rest, DigitStops
<1> QED
  BY <1>1, <1>2

LEMMA RestIs ==
  ASSUME path \in Seq(Characters), NEW i \in Nat \ {0}
  PROVE  /\ Rest(i) \in Seq(Characters)
         /\ i <= Len(path) + 1 => Len(Rest(i)) = (Len(path) - i) + 1
         /\ \A j \in 1..Len(Rest(i)) : Rest(i)[j] = path[(i + j) - 1]
BY DEF Rest

LEMMA DigitsAre ==
  /\ DOMAIN Path!DigitOf = {"0", "1", "2"}
  /\ Path!DigitOf["0"] = 0 /\ Path!DigitOf["1"] = 1 /\ Path!DigitOf["2"] = 2
BY DEF Path!DigitOf

LEMMA FirstOnly ==
  ASSUME NEW C, NEW r \in Seq(C), Len(r) >= 1
  PROVE  SubSeq(r, 1, 1) = <<r[1]>>
<1> DEFINE t == SubSeq(r, 1, 1)
           u == <<r[1]>>
<1>1. t \in Seq(C) /\ Len(t) = 1 /\ t[1] = r[1]
  OBVIOUS
<1>2. u \in Seq(C) /\ Len(u) = 1 /\ u[1] = r[1]
  OBVIOUS
<1> HIDE DEF t, u
<1>3. \A i \in 1..1 : t[i] = u[i]
  BY <1>1, <1>2
<1>4. t = u
  BY <1>1, <1>2, <1>3
<1> QED
  BY <1>4 DEF t, u

LEMMA DotTurn ==
  ASSUME path \in Seq(Characters), current \in Nat \ {0}, current <= Len(path), path[current] = ".", Path!makePath
  PROVE  args_' = args_ /\ current' = current + 1
<1>1. Path!char(current) = "."
  BY DEF Path!char
<1>2. Path!Dot
  BY <1>1 DEF Path!makePath, Path!IndexParameter, Path!IndexInPath, Path!KeyParameter, Path!Name
<1> QED
  BY <1>2 DEF Path!Dot

LEMMA NameTurn ==
  ASSUME path \in Seq(Characters), current \in Nat \ {0}, current <= Len(path),
         path[current] \in {"a", "b"}, current = Len(path) \/ path[current + 1] \in {".", "["}, Path!makePath
  PROVE  args_' = Append(args_, Path!MemberName(<<path[current]>>)) /\ current' = current + 1
<1>1. Path!char(current) \in {"a", "b"}
  BY DEF Path!char
<1>2. Path!Name
  BY <1>1 DEF Path!makePath, Path!IndexParameter, Path!IndexInPath, Path!KeyParameter, Path!Dot
<1>3. Rest(current) \in Seq(Characters) /\ Len(Rest(current)) = (Len(path) - current) + 1
  BY RestIs
<1>4. Rest(current)[1] = path[current] /\ (current < Len(path) => Rest(current)[2] = path[current + 1])
  BY <1>3, RestIs
<1>5. NameStops \in SUBSET (1..Len(Rest(current))) /\ 1 \notin NameStops
  BY <1>4 DEF NameStops, Path!InName
<1>6. 1 = Len(Rest(current)) \/ 2 \in NameStops
  BY <1>3, <1>4 DEF NameStops, Path!InName
<1>7. Before(Rest(current), NameStops) = SubSeq(Rest(current), 1, 1)
  <2> DEFINE r == Rest(current)
  <2>1. 1 \in 0..Len(r) /\ (\A i \in 1..1 : i \notin NameStops) /\ (1 = Len(r) \/ 1 + 1 \in NameStops)
    BY <1>3, <1>5, <1>6
  <2> HIDE DEF r
  <2>2. r \in Seq(Characters) /\ NameStops \in SUBSET (1..Len(r))
    BY <1>3, <1>5 DEF r
  <2> QED
    BY <2>1, <2>2, BeforeIs DEF r
<1>8. SubSeq(Rest(current), 1, 1) = <<path[current]>>
  <2> DEFINE r == Rest(current)
  <2>1. r \in Seq(Characters) /\ Len(r) >= 1 /\ r[1] = path[current]
    BY <1>3, <1>4
  <2> HIDE DEF r
  <2>2. SubSeq(r, 1, 1) = <<r[1]>>
    BY <2>1, FirstOnly
  <2> QED
    BY <2>1, <2>2 DEF r
<1>9. Path!RunOf(Path!InName) = <<path[current]>>
  BY <1>7, <1>8, RunsAre
<1> QED
  BY <1>2, <1>9 DEF Path!Name

LEMMA IndexTurn ==
  ASSUME path \in Seq(Characters), current \in Nat \ {0}, NEW t \in Seq(DOMAIN Path!DigitOf), t # << >>,
         current + Len(t) + 1 <= Len(path), path[current] = "[",
         \A j \in 1..Len(t) : path[current + j] = t[j],
         path[current + Len(t) + 1] = "]", Path!makePath
  PROVE  args_' = Append(args_, Path!Index(Path!indexAt(t))) /\ current' = current + Len(t) + 2
<1> DEFINE m == Len(t)
           r == Rest(current + 1)
<1>1. m \in Nat /\ m >= 1 /\ \A j \in 1..m : t[j] \in {"0", "1", "2"}
  BY DigitsAre
<1>2. Path!char(current) = "[" /\ Path!char(current + 1) # "%"
  <2>1. path[current + 1] = t[1] /\ t[1] # "%" /\ current + 1 <= Len(path)
    <3>1. 1 \in 1..m
      BY <1>1
    <3>2. path[current + 1] = t[1] /\ t[1] \in {"0", "1", "2"}
      BY <1>1, <3>1
    <3> QED
      BY <1>1, <3>2
  <2> QED
    BY <2>1 DEF Path!char
<1>3. Path!IndexInPath
  BY <1>2 DEF Path!makePath, Path!IndexParameter, Path!KeyParameter, Path!Dot, Path!Name
<1>4. r \in Seq(Characters) /\ Len(r) = Len(path) - current /\ \A j \in 1..Len(r) : r[j] = path[current + j]
  <2>1. current + 1 \in Nat \ {0} /\ current + 1 <= Len(path) + 1
    BY <1>1
  <2>2. /\ r \in Seq(Characters) /\ Len(r) = (Len(path) - (current + 1)) + 1
        /\ \A j \in 1..Len(r) : r[j] = path[((current + 1) + j) - 1]
    BY <2>1, RestIs
  <2>3. \A j \in 1..Len(r) : ((current + 1) + j) - 1 = current + j
    OBVIOUS
  <2> QED
    BY <2>2, <2>3
<1>5. DigitStops = {i \in 1..Len(r) : r[i] \notin DOMAIN Path!DigitOf}
  BY DEF DigitStops
<1> HIDE DEF r
<1>6. m + 1 \in 1..Len(r) /\ m \in 0..Len(r) /\ r[m + 1] = "]" /\ \A j \in 1..m : j \in 1..Len(r) /\ r[j] = t[j]
  BY <1>1, <1>4
<1>7. DigitStops \in SUBSET (1..Len(r)) /\ m + 1 \in DigitStops /\ \A j \in 1..m : j \notin DigitStops
  BY <1>1, <1>5, <1>6, DigitsAre
<1>8. Before(r, DigitStops) = SubSeq(r, 1, m)
  BY <1>4, <1>6, <1>7, BeforeIs
<1>9. SubSeq(r, 1, m) = t
  BY <1>1, <1>4, <1>6
<1>10. Path!Digits = t
  BY <1>8, <1>9, RunsAre DEF r
<1>11. Path!Min({current + m + 2, Len(path) + 1}) = current + m + 2
  <2> DEFINE a == current + m + 2
             b == Len(path) + 1
  <2>1. a \in Int /\ b \in Int /\ a <= b
    BY <1>1
  <2> HIDE DEF a, b
  <2>2. \A x \in {a, b} : (\A y \in {a, b} : x <= y) <=> x = a
    BY <2>1
  <2>3. a \in {a, b}
    OBVIOUS
  <2> QED
    BY <2>2, <2>3 DEF Path!Min, a, b
<1> QED
  BY <1>3, <1>10, <1>11 DEF Path!IndexInPath

-------------------------------------------------------------------------------
(* What documented expressions are made of. *)

Lead(s, i) == IF s[i].kind = "key" \/ i = 1 THEN <<".">> ELSE << >>
Body(s, i) == IF s[i].kind = "index" THEN <<"[">> \o s[i].text \o <<"]">> ELSE s[i].text
Added(s, r, i) == r \o Lead(s, i) \o Body(s, i)
Strings == Seq(Characters)
Alphabet == {".", "[", "]", "a", "b"} \cup DOMAIN Path!DigitOf \subseteq Characters

LEMMA OneCharacter ==
  ASSUME NEW C, NEW a \in C
  PROVE  <<a>> \in Seq(C) /\ Len(<<a>>) = 1 /\ <<a>>[1] = a
OBVIOUS

LEMMA TwoCharacters ==
  ASSUME NEW C, NEW a \in C, NEW b \in C
  PROVE  <<a, b>> \in Seq(C) /\ Len(<<a, b>>) = 2
OBVIOUS

LEMMA PutTogether ==
  ASSUME NEW C, NEW s \in Seq(C), NEW t \in Seq(C)
  PROVE  /\ s \o t \in Seq(C) /\ Len(s \o t) = Len(s) + Len(t)
         /\ \A i \in 1..Len(s) : (s \o t)[i] = s[i]
         /\ \A i \in 1..Len(t) : (s \o t)[Len(s) + i] = t[i]
<1>1. s \o t \in Seq(C) /\ Len(s \o t) = Len(s) + Len(t)
  OBVIOUS
<1>2. ASSUME NEW i \in 1..Len(s) PROVE (s \o t)[i] = s[i]
  OBVIOUS
<1>3. ASSUME NEW i \in 1..Len(t) PROVE (s \o t)[Len(s) + i] = t[i]
  OBVIOUS
<1> QED
  BY <1>1, <1>2, <1>3

LEMMA SegmentIs ==
  ASSUME NEW seg \in Path!Segments
  PROVE  \/ seg.kind = "key" /\ seg.text \in {<<"a">>, <<"b">>}
         \/ seg.kind = "index" /\ seg.text \in {<<"0">>, <<"1">>, <<"1", "0">>}
BY DEF Path!Segments

LEMMA SegmentTexts ==
  ASSUME Alphabet
  PROVE
  /\ \A t \in {<<"a">>, <<"b">>} : t \in Strings /\ Len(t) = 1 /\ t[1] \in {"a", "b"} /\ t = <<t[1]>>
  /\ \A t \in {<<"0">>, <<"1">>, <<"1", "0">>} :
       /\ t \in Strings /\ t \in Seq(DOMAIN Path!DigitOf) /\ Len(t) \in Nat /\ Len(t) >= 1
<1>0. "a" \in Characters /\ "b" \in Characters /\ "0" \in Characters /\ "1" \in Characters
  BY DigitsAre DEF Alphabet
<1>1. <<"a">> \in Strings /\ <<"b">> \in Strings
  BY <1>0, OneCharacter DEF Strings
<1>2. <<"0">> \in Strings /\ <<"1">> \in Strings /\ <<"1", "0">> \in Strings
  BY <1>0, OneCharacter, TwoCharacters DEF Strings
<1>3. /\ <<"0">> \in Seq(DOMAIN Path!DigitOf) /\ <<"1">> \in Seq(DOMAIN Path!DigitOf)
      /\ <<"1", "0">> \in Seq(DOMAIN Path!DigitOf)
  BY DigitsAre
<1>4. /\ Len(<<"a">>) = 1 /\ Len(<<"b">>) = 1 /\ Len(<<"0">>) = 1 /\ Len(<<"1">>) = 1
      /\ Len(<<"1", "0">>) = 2
  OBVIOUS
<1>5. ASSUME NEW t \in {<<"a">>, <<"b">>}
      PROVE  t \in Strings /\ Len(t) = 1 /\ t[1] \in {"a", "b"} /\ t = <<t[1]>>
  <2>1. CASE t = <<"a">>
    BY <2>1, <1>1, <1>4
  <2>2. CASE t = <<"b">>
    BY <2>2, <1>1, <1>4
  <2> QED
    BY <2>1, <2>2
<1>6. ASSUME NEW t \in {<<"0">>, <<"1">>, <<"1", "0">>}
      PROVE  t \in Strings /\ t \in Seq(DOMAIN Path!DigitOf) /\ Len(t) \in Nat /\ Len(t) >= 1
  <2>1. CASE t = <<"0">>
    BY <2>1, <1>2, <1>3, <1>4
  <2>2. CASE t = <<"1">>
    BY <2>2, <1>2, <1>3, <1>4
  <2>3. CASE t = <<"1", "0">>
    BY <2>3, <1>2, <1>3, <1>4
  <2> QED
    BY <2>1, <2>2, <2>3
<1> QED
  BY <1>5, <1>6

LEMMA LeadIs ==
  ASSUME Alphabet, NEW s, NEW i \in Nat \ {0}
  PROVE  /\ Lead(s, i) \in Strings /\ Len(Lead(s, i)) \in {0, 1}
         /\ Len(Lead(s, i)) = 1 => Lead(s, i)[1] = "."
         /\ Len(Lead(s, i)) = 0 => s[i].kind # "key"
<1>1. <<".">> \in Strings /\ << >> \in Strings /\ Len(<<".">>) = 1 /\ Len(<< >>) = 0 /\ <<".">>[1] = "."
  <2>1. "." \in Characters
    BY DEF Alphabet
  <2>2. << >> \in Strings /\ Len(<< >>) = 0
    BY DEF Strings
  <2> QED
    BY <2>1, <2>2, OneCharacter DEF Strings
<1> QED
  BY <1>1 DEF Lead

(* The body of a name, and of an index with its brackets. *)
IsKeyBody(b, t) == b = t /\ t \in Strings /\ Len(t) = 1 /\ t[1] \in {"a", "b"} /\ t = <<t[1]>>
IsIndexBody(b, t) ==
  /\ t \in Seq(DOMAIN Path!DigitOf) /\ t # << >>
  /\ b \in Strings /\ Len(b) = Len(t) + 2 /\ b[1] = "[" /\ b[Len(t) + 2] = "]"
  /\ \A j \in 1..Len(t) : b[j + 1] = t[j]

LEMMA BodyIs ==
  ASSUME Alphabet, NEW s, NEW i \in Nat \ {0}, s[i] \in Path!Segments
  PROVE  \/ s[i].kind = "key" /\ IsKeyBody(Body(s, i), s[i].text)
         \/ s[i].kind = "index" /\ IsIndexBody(Body(s, i), s[i].text)
<1> DEFINE t == s[i].text
<1>1. CASE s[i].kind = "key" /\ t \in {<<"a">>, <<"b">>}
  <2>1. t \in Strings /\ Len(t) = 1 /\ t[1] \in {"a", "b"} /\ t = <<t[1]>>
    BY <1>1, SegmentTexts
  <2> QED
    BY <1>1, <2>1 DEF Body, IsKeyBody
<1>2. CASE s[i].kind = "index" /\ t \in {<<"0">>, <<"1">>, <<"1", "0">>}
  <2>1. t \in Strings /\ t \in Seq(DOMAIN Path!DigitOf) /\ Len(t) \in Nat /\ Len(t) >= 1
    BY <1>2, SegmentTexts
  <2> DEFINE o == <<"[">>
             c == <<"]">>
  <2>2. o \in Strings /\ Len(o) = 1 /\ o[1] = "[" /\ c \in Strings /\ Len(c) = 1 /\ c[1] = "]"
    <3>1. "[" \in Characters /\ "]" \in Characters
      BY DEF Alphabet
    <3> QED
      BY <3>1, OneCharacter DEF Strings
  <2>3. Body(s, i) = o \o t \o c
    BY <1>2 DEF Body
  <2> HIDE DEF o, c, t
  <2>4. /\ o \o t \in Strings /\ Len(o \o t) = Len(t) + 1 /\ (o \o t)[1] = "["
        /\ \A j \in 1..Len(t) : (o \o t)[j + 1] = t[j]
    <3>1. /\ o \o t \in Strings /\ Len(o \o t) = Len(o) + Len(t)
          /\ \A j \in 1..Len(o) : (o \o t)[j] = o[j]
          /\ \A j \in 1..Len(t) : (o \o t)[Len(o) + j] = t[j]
      BY <2>1, <2>2, PutTogether DEF Strings
    <3>2. 1 \in 1..1 /\ 1 + Len(t) = Len(t) + 1 /\ \A j \in 1..Len(t) : 1 + j = j + 1
      BY <2>1
    <3> QED
      BY <2>2, <3>1, <3>2
  <2> DEFINE u == o \o t
  <2> HIDE DEF u
  <2>5. /\ u \o c \in Strings /\ Len(u \o c) = Len(t) + 2 /\ (u \o c)[1] = "[" /\ (u \o c)[Len(t) + 2] = "]"
        /\ \A j \in 1..Len(t) : (u \o c)[j + 1] = t[j]
    <3>1. /\ u \in Strings /\ Len(u) = Len(t) + 1 /\ u[1] = "["
          /\ \A j \in 1..Len(t) : u[j + 1] = t[j]
      BY <2>4 DEF u
    <3>2. /\ u \o c \in Strings /\ Len(u \o c) = Len(u) + 1 /\ (u \o c)[Len(u) + 1] = c[1]
          /\ \A j \in 1..Len(u) : (u \o c)[j] = u[j]
      <4>1. /\ u \o c \in Strings /\ Len(u \o c) = Len(u) + Len(c)
            /\ \A j \in 1..Len(u) : (u \o c)[j] = u[j]
            /\ \A j \in 1..Len(c) : (u \o c)[Len(u) + j] = c[j]
        BY <2>2, <3>1, PutTogether DEF Strings
      <4> QED
        BY <2>2, <4>1
    <3>3. 1 \in 1..Len(u) /\ (Len(t) + 1) + 1 = Len(t) + 2 /\ \A j \in 1..Len(t) : j + 1 \in 1..Len(u)
      BY <2>1, <3>1
    <3> QED
      BY <2>2, <3>1, <3>2, <3>3
  <2>6. t # << >>
    BY <2>1
  <2> QED
    BY <1>2, <2>1, <2>3, <2>5, <2>6 DEF IsIndexBody, u, t
<1> QED
  BY <1>1, <1>2, SegmentIs

LEMMA BodyTyped ==
  ASSUME Alphabet, NEW s, NEW i \in Nat \ {0}, s[i] \in Path!Segments
  PROVE  Body(s, i) \in Strings /\ Len(Body(s, i)) >= 1 /\ (s[i].kind # "key" => Body(s, i)[1] = "[")
<1>1. CASE s[i].kind = "key" /\ IsKeyBody(Body(s, i), s[i].text)
  BY <1>1 DEF IsKeyBody
<1>2. CASE s[i].kind = "index" /\ IsIndexBody(Body(s, i), s[i].text)
  <2>1. Len(s[i].text) \in Nat
    BY <1>2 DEF IsIndexBody
  <2> QED
    BY <1>2, <2>1, SMTT(40) DEF IsIndexBody
<1> QED
  BY <1>1, <1>2, BodyIs

LEMMA TextIs ==
  ASSUME Alphabet, NEW s \in Seq(Path!Segments), s # << >>
  PROVE  \E f \in [0..Len(s) -> Strings] :
           /\ f[0] = << >> /\ Path!Text(s) = f[Len(s)]
           /\ \A k \in 1..Len(s) : f[k] = Added(s, f[k - 1], k)
<1> DEFINE n == Len(s)
           base == << >>
           step == [i \in 1..n |-> [r \in Strings |-> Added(s, r, i)]]
           Is(it) == it = [p \in SUBSET DOMAIN [i \in DOMAIN s |-> i] |->
                             IF p = {} THEN base ELSE Added(s, it[p \ {Max(p)}], [i \in DOMAIN s |-> i][Max(p)])]
<1>1. n \in Nat /\ DOMAIN s = 1..n /\ \A i \in 1..n : s[i] \in Path!Segments
  OBVIOUS
<1>2. step \in Turns(n, Strings) /\ base \in Strings
  <2>1. ASSUME NEW i \in 1..n, NEW r \in Strings
        PROVE  Added(s, r, i) \in Strings
    <3>1. s[i] \in Path!Segments /\ i \in Nat \ {0}
      BY <1>1
    <3>2. Lead(s, i) \in Strings /\ Body(s, i) \in Strings
      BY <3>1, LeadIs, BodyTyped
    <3> QED
      BY <3>2 DEF Added, Strings
  <2>2. << >> \in Strings
    BY DEF Strings
  <2> QED
    BY <2>1, <2>2 DEF Turns
<1>3. PICK it : Iterates(it, n, Strings, base, step)
  <2> HIDE DEF step, base, n
  <2> QED
    BY <1>1, <1>2, FoldExists
<1>4. Is(it)
  <2>1. ASSUME NEW p \in SUBSET (1..n), p # {}
        PROVE  it[p] = Added(s, it[p \ {Max(p)}], Max(p)) /\ Max(p) \in 1..n
    <3>1. Max(p) \in 1..n /\ it[p \ {Max(p)}] \in Strings
      BY <2>1, <1>1, <1>3, LastNumber DEF Iterates
    <3> HIDE DEF n, base
    <3>2. it[p] = step[Max(p)][it[p \ {Max(p)}]]
      BY <2>1, <1>3 DEF Iterates
    <3> QED
      BY <3>1, <3>2
  <2>2. \A p \in SUBSET (1..n) : p = {} => it[p] = base
    BY <1>3 DEF Iterates
  <2> HIDE DEF base
  <2> QED
    BY <1>1, <1>3, <2>1, <2>2 DEF Iterates
<1>5. \E g : Is(g)
  BY <1>4
<1>6. PICK g : Is(g) /\ Path!Text(s) = g[DOMAIN [i \in DOMAIN s |-> i]]
  BY <1>5 DEF Path!Text, Path!FoldLeftDomain, Path!FoldLeft, Path!MapThenFoldSet, Path!Max, Max, Added, Lead, Body
<1>7. \E f : Folds(f, n, Strings, base, step) /\ f[n] = g[1..n]
  <2>1. \A p \in SUBSET (1..n) :
          g[p] = IF p = {} THEN base ELSE Added(s, g[p \ {Max(p)}], [i \in DOMAIN s |-> i][Max(p)])
    BY <1>6, <1>1
  <2>2. ASSUME NEW p \in SUBSET (1..n), p # {}, g[p \ {Max(p)}] \in Strings
        PROVE  g[p] = step[Max(p)][g[p \ {Max(p)}]]
    <3>1. Max(p) \in 1..n /\ [i \in DOMAIN s |-> i][Max(p)] = Max(p)
      BY <2>2, <1>1, LastNumber
    <3> QED
      BY <2>1, <2>2, <3>1
  <2>3. g[{}] = base
    BY <2>1
  <2>4. TakesTurns(g, n, Strings, base, step)
    BY <2>2, <2>3 DEF TakesTurns
  <2> HIDE DEF step, Is, n, base
  <2> QED
    BY <1>1, <1>2, <2>4, FoldIs
<1>8. PICK f : Folds(f, n, Strings, base, step) /\ f[n] = g[1..n]
  BY <1>7
<1>9. \A k \in 1..n : f[k] = Added(s, f[k - 1], k)
  <2>1. \A k \in 1..n : k - 1 \in 0..n
    BY <1>1
  <2>2. \A k \in 1..n : f[k - 1] \in Strings /\ f[k] = step[k][f[k - 1]]
    BY <1>8, <2>1 DEF Folds
  <2> QED
    BY <2>2
<1>10. f[n] = g[DOMAIN [i \in DOMAIN s |-> i]]
  BY <1>1, <1>8
<1> QED
  BY <1>6, <1>8, <1>9, <1>10, ZenonT(60) DEF Folds

(* The indices there are, and an index before it is cut to them. *)
IndexNumbers == 0..ArrayIndexes - 1
Digit(t, i) == Path!DigitOf[t[i]]

LEMMA IndexAtIs ==
  ASSUME ArrayIndexes \in Nat, 10 < ArrayIndexes, NEW t \in Seq(DOMAIN Path!DigitOf)
  PROVE  \E f \in [0..Len(t) -> IndexNumbers] :
           /\ f[0] = 0 /\ Path!indexAt(t) = f[Len(t)]
           /\ \A k \in 1..Len(t) : f[k] = (f[k - 1] * 10 + Digit(t, k)) % ArrayIndexes
<1> DEFINE n == Len(t)
           base == 0
           step == [i \in 1..n |-> [r \in IndexNumbers |-> (r * 10 + Digit(t, i)) % ArrayIndexes]]
           Is(it) == it = [p \in SUBSET DOMAIN t |->
                             IF p = {} THEN base ELSE (it[p \ {Max(p)}] * 10 + Digit(t, Max(p))) % ArrayIndexes]
<1>1. n \in Nat /\ DOMAIN t = 1..n /\ \A i \in 1..n : t[i] \in DOMAIN Path!DigitOf
  OBVIOUS
<1>2. step \in Turns(n, IndexNumbers) /\ base \in IndexNumbers
  <2>1. \A i \in 1..n : Digit(t, i) \in Nat
    BY <1>1, DigitsAre DEF Digit
  <2>2. ASSUME NEW i \in 1..n, NEW r \in IndexNumbers
        PROVE  (r * 10 + Digit(t, i)) % ArrayIndexes \in IndexNumbers
    <3>1. r * 10 + Digit(t, i) \in Nat
      BY <2>1 DEF IndexNumbers
    <3> DEFINE x == r * 10 + Digit(t, i)
    <3> HIDE DEF x
    <3>2. x % ArrayIndexes \in 0..ArrayIndexes - 1
      BY <3>1 DEF x
    <3> QED
      BY <3>2 DEF x, IndexNumbers
  <2>3. 0 \in IndexNumbers
    BY DEF IndexNumbers
  <2> QED
    BY <2>2, <2>3 DEF Turns
<1>3. PICK it : Iterates(it, n, IndexNumbers, base, step)
  <2> HIDE DEF step, base, n
  <2> QED
    BY <1>1, <1>2, FoldExists
<1>4. Is(it)
  <2>1. ASSUME NEW p \in SUBSET (1..n), p # {}
        PROVE  it[p] = (it[p \ {Max(p)}] * 10 + Digit(t, Max(p))) % ArrayIndexes /\ Max(p) \in 1..n
    <3>1. Max(p) \in 1..n /\ it[p \ {Max(p)}] \in IndexNumbers
      BY <2>1, <1>1, <1>3, LastNumber DEF Iterates
    <3> HIDE DEF n, base
    <3>2. it[p] = step[Max(p)][it[p \ {Max(p)}]]
      BY <2>1, <1>3 DEF Iterates
    <3> QED
      BY <3>1, <3>2
  <2>2. \A p \in SUBSET (1..n) : p = {} => it[p] = base
    BY <1>3 DEF Iterates
  <2> HIDE DEF base
  <2> QED
    BY <1>1, <1>3, <2>1, <2>2 DEF Iterates
<1>5. \E g : Is(g)
  BY <1>4
<1>6. PICK g : Is(g) /\ Path!indexAt(t) = g[DOMAIN t]
  BY <1>5 DEF Path!indexAt, Path!FoldLeft, Path!MapThenFoldSet, Path!Max, Max, Digit
<1>7. \E f : Folds(f, n, IndexNumbers, base, step) /\ f[n] = g[1..n]
  <2>1. \A p \in SUBSET (1..n) :
          g[p] = IF p = {} THEN base ELSE (g[p \ {Max(p)}] * 10 + Digit(t, Max(p))) % ArrayIndexes
    BY <1>6, <1>1
  <2>2. ASSUME NEW p \in SUBSET (1..n), p # {}, g[p \ {Max(p)}] \in IndexNumbers
        PROVE  g[p] = step[Max(p)][g[p \ {Max(p)}]]
    <3>1. Max(p) \in 1..n
      BY <2>2, <1>1, LastNumber
    <3> QED
      BY <2>1, <2>2, <3>1
  <2>3. g[{}] = base
    BY <2>1
  <2>4. TakesTurns(g, n, IndexNumbers, base, step)
    BY <2>2, <2>3 DEF TakesTurns
  <2> HIDE DEF step, Is, n, base
  <2> QED
    BY <1>1, <1>2, <2>4, FoldIs
<1>8. PICK f : Folds(f, n, IndexNumbers, base, step) /\ f[n] = g[1..n]
  BY <1>7
<1>9. \A k \in 1..n : f[k] = (f[k - 1] * 10 + Digit(t, k)) % ArrayIndexes
  <2>1. \A k \in 1..n : k - 1 \in 0..n
    BY <1>1
  <2>2. \A k \in 1..n : f[k - 1] \in IndexNumbers /\ f[k] = step[k][f[k - 1]]
    BY <1>8, <2>1 DEF Folds
  <2> QED
    BY <2>2
<1>10. f[n] = g[DOMAIN t]
  BY <1>1, <1>8
<1> QED
  BY <1>6, <1>8, <1>9, <1>10, ZenonT(60) DEF Folds

Wholes == Nat

LEMMA NamedIs ==
  ASSUME NEW seg, seg.text \in Seq(DOMAIN Path!DigitOf)
  PROVE  \E f \in [0..Len(seg.text) -> Wholes] :
           /\ f[0] = 0 /\ Path!Named(seg) = IF seg.kind = "key" THEN Path!MemberName(seg.text) ELSE Path!Index(f[Len(seg.text)])
           /\ \A k \in 1..Len(seg.text) : f[k] = (f[k - 1] * 10) + Digit(seg.text, k)
<1> DEFINE n == Len(seg.text)
           base == 0
           step == [i \in 1..n |-> [r \in Wholes |-> (r * 10) + Digit(seg.text, i)]]
           Is(it) == it = [p \in SUBSET DOMAIN seg.text |->
                             IF p = {} THEN base ELSE (it[p \ {Max(p)}] * 10) + Digit(seg.text, Max(p))]
<1>1. n \in Nat /\ DOMAIN seg.text = 1..n /\ \A i \in 1..n : seg.text[i] \in DOMAIN Path!DigitOf
  OBVIOUS
<1>2. step \in Turns(n, Wholes) /\ base \in Wholes
  <2>1. \A i \in 1..n : Digit(seg.text, i) \in Nat
    BY <1>1, DigitsAre DEF Digit
  <2>2. ASSUME NEW i \in 1..n, NEW r \in Nat
        PROVE  (r * 10) + Digit(seg.text, i) \in Nat
    BY <2>1
  <2> QED
    BY <2>2 DEF Turns, Wholes
<1>3. PICK it : Iterates(it, n, Wholes, base, step)
  <2> HIDE DEF step, base, n
  <2> QED
    BY <1>1, <1>2, FoldExists
<1>4. Is(it)
  <2>1. ASSUME NEW p \in SUBSET (1..n), p # {}
        PROVE  it[p] = (it[p \ {Max(p)}] * 10) + Digit(seg.text, Max(p)) /\ Max(p) \in 1..n
    <3>1. Max(p) \in 1..n /\ it[p \ {Max(p)}] \in Wholes
      BY <2>1, <1>1, <1>3, LastNumber DEF Iterates
    <3> HIDE DEF n, base
    <3>2. it[p] = step[Max(p)][it[p \ {Max(p)}]]
      BY <2>1, <1>3 DEF Iterates
    <3> QED
      BY <3>1, <3>2
  <2>2. \A p \in SUBSET (1..n) : p = {} => it[p] = base
    BY <1>3 DEF Iterates
  <2> HIDE DEF base
  <2> QED
    BY <1>1, <1>3, <2>1, <2>2 DEF Iterates
<1>5. \E g : Is(g)
  BY <1>4
<1>6. PICK g : Is(g) /\ Path!Named(seg) = IF seg.kind = "key" THEN Path!MemberName(seg.text) ELSE Path!Index(g[DOMAIN seg.text])
  BY <1>5 DEF Path!Named, Path!FoldLeft, Path!MapThenFoldSet, Path!Max, Max, Digit
<1>7. \E f : Folds(f, n, Wholes, base, step) /\ f[n] = g[1..n]
  <2>1. \A p \in SUBSET (1..n) :
          g[p] = IF p = {} THEN base ELSE (g[p \ {Max(p)}] * 10) + Digit(seg.text, Max(p))
    BY <1>6, <1>1
  <2>2. ASSUME NEW p \in SUBSET (1..n), p # {}, g[p \ {Max(p)}] \in Wholes
        PROVE  g[p] = step[Max(p)][g[p \ {Max(p)}]]
    <3>1. Max(p) \in 1..n
      BY <2>2, <1>1, LastNumber
    <3> QED
      BY <2>1, <2>2, <3>1
  <2>3. g[{}] = base
    BY <2>1
  <2>4. TakesTurns(g, n, Wholes, base, step)
    BY <2>2, <2>3 DEF TakesTurns
  <2> HIDE DEF step, Is, n, base
  <2> QED
    BY <1>1, <1>2, <2>4, FoldIs
<1>8. PICK f : Folds(f, n, Wholes, base, step) /\ f[n] = g[1..n]
  BY <1>7
<1>9. \A k \in 1..n : f[k] = (f[k - 1] * 10) + Digit(seg.text, k)
  <2>1. \A k \in 1..n : k - 1 \in 0..n
    BY <1>1
  <2>2. \A k \in 1..n : f[k - 1] \in Wholes /\ f[k] = step[k][f[k - 1]]
    BY <1>8, <2>1 DEF Folds
  <2> QED
    BY <2>2
<1>10. f[n] = g[DOMAIN seg.text]
  BY <1>1, <1>8
<1> QED
  BY <1>6, <1>8, <1>9, <1>10, ZenonT(60) DEF Folds

(* The indices of documented expressions are read as they are meant. *)
LEMMA IndexIsNamed ==
  ASSUME Alphabet, ArrayIndexes \in Nat, 10 < ArrayIndexes, NEW seg \in Path!Segments, seg.kind = "index"
  PROVE  Path!Index(Path!indexAt(seg.text)) = Path!Named(seg)
<1> DEFINE t == seg.text
<1>1. t \in {<<"0">>, <<"1">>, <<"1", "0">>}
  BY SegmentIs
<1>2. t \in Seq(DOMAIN Path!DigitOf)
  BY <1>1, SegmentTexts
<1>3. PICK f \in [0..Len(t) -> IndexNumbers] :
           /\ f[0] = 0 /\ Path!indexAt(t) = f[Len(t)]
           /\ \A k \in 1..Len(t) : f[k] = (f[k - 1] * 10 + Digit(t, k)) % ArrayIndexes
  BY <1>2, IndexAtIs
<1>4. PICK g \in [0..Len(t) -> Wholes] :
           /\ g[0] = 0
           /\ Path!Named(seg) = IF seg.kind = "key" THEN Path!MemberName(t) ELSE Path!Index(g[Len(t)])
           /\ \A k \in 1..Len(t) : g[k] = (g[k - 1] * 10) + Digit(t, k)
  BY <1>2, NamedIs
<1>5. Len(t) \in {1, 2} /\ Digit(t, 1) \in 0..1 /\ (Len(t) = 2 => Digit(t, 1) = 1 /\ Digit(t, 2) = 0)
  <2>1. CASE t = <<"0">>
    BY <2>1, DigitsAre DEF Digit
  <2>2. CASE t = <<"1">>
    BY <2>2, DigitsAre DEF Digit
  <2>3. CASE t = <<"1", "0">>
    BY <2>3, DigitsAre DEF Digit
  <2> QED
    BY <1>1, <2>1, <2>2, <2>3
<1> HIDE DEF t
<1>6. \A m \in 0..10 : m % ArrayIndexes = m
  OBVIOUS
<1>7. f[1] = Digit(t, 1) /\ g[1] = Digit(t, 1)
  <2>1. 1 \in 1..Len(t) /\ 1 - 1 = 0
    BY <1>5
  <2>2. f[1] = (f[0] * 10 + Digit(t, 1)) % ArrayIndexes /\ g[1] = (g[0] * 10) + Digit(t, 1)
    BY <1>3, <1>4, <2>1
  <2>3. (0 * 10) + Digit(t, 1) = Digit(t, 1)
    BY <1>5
  <2> QED
    BY <1>3, <1>4, <1>5, <1>6, <2>2, <2>3
<1>8. Len(t) = 2 => f[2] = 10 /\ g[2] = 10
  <2> SUFFICES ASSUME Len(t) = 2 PROVE f[2] = 10 /\ g[2] = 10
    OBVIOUS
  <2>1. 2 \in 1..Len(t) /\ 2 - 1 = 1
    OBVIOUS
  <2>2. f[2] = (f[1] * 10 + Digit(t, 2)) % ArrayIndexes /\ g[2] = (g[1] * 10) + Digit(t, 2)
    BY <1>3, <1>4, <2>1
  <2>3. f[1] = 1 /\ g[1] = 1 /\ Digit(t, 2) = 0
    BY <1>5, <1>7
  <2> QED
    BY <1>6, <2>2, <2>3
<1>9. f[Len(t)] = g[Len(t)]
  BY <1>5, <1>7, <1>8
<1> QED
  BY <1>3, <1>4, <1>9 DEF t

-------------------------------------------------------------------------------
(* On the way through a documented expression: so many segments are read,  *)
(* and perhaps the dot of the next.                                        *)

Spelt(s, f) ==
  /\ s \in Seq(Path!Segments) /\ f \in [0..Len(s) -> Strings] /\ f[0] = << >> /\ path = f[Len(s)]
  /\ \A k \in 1..Len(s) : f[k] = Added(s, f[k - 1], k)

NamesOf(s, k) == [i \in 1..k |-> Path!Named(s[i])]

IsAt(s, f, k) ==
  \/ current = Len(f[k]) + 1
  \/ k < Len(s) /\ Len(Lead(s, k + 1)) = 1 /\ current = Len(f[k]) + 2
Reached(s, f) == \E k \in 0..Len(s) : args_ = NamesOf(s, k) /\ IsAt(s, f, k)

LEMMA ThreeParts ==
  ASSUME NEW C, NEW r \in Seq(C), NEW l \in Seq(C), NEW b \in Seq(C), NEW x, x = r \o l \o b
  PROVE  /\ x \in Seq(C) /\ Len(x) = Len(r) + Len(l) + Len(b)
         /\ \A j \in 1..Len(r) : x[j] = r[j]
         /\ \A j \in 1..Len(l) : x[Len(r) + j] = l[j]
         /\ \A j \in 1..Len(b) : x[Len(r) + Len(l) + j] = b[j]
<1> DEFINE y == r \o l
<1>1. /\ y \in Seq(C) /\ Len(y) = Len(r) + Len(l)
      /\ \A j \in 1..Len(r) : y[j] = r[j]
      /\ \A j \in 1..Len(l) : y[Len(r) + j] = l[j]
  BY PutTogether
<1> HIDE DEF y
<1>2. x = y \o b
  BY DEF y
<1>3. /\ x \in Seq(C) /\ Len(x) = Len(y) + Len(b)
      /\ \A j \in 1..Len(y) : x[j] = y[j]
      /\ \A j \in 1..Len(b) : x[Len(y) + j] = b[j]
  <2>1. /\ y \o b \in Seq(C) /\ Len(y \o b) = Len(y) + Len(b)
        /\ \A j \in 1..Len(y) : (y \o b)[j] = y[j]
        /\ \A j \in 1..Len(b) : (y \o b)[Len(y) + j] = b[j]
    <3>1. y \in Seq(C) /\ b \in Seq(C)
      BY <1>1
    <3> HIDE <1>1
    <3>2. y \o b \in Seq(C) /\ Len(y \o b) = Len(y) + Len(b)
      BY <3>1, PutTogether
    <3>3. \A j \in 1..Len(y) : (y \o b)[j] = y[j]
      BY <3>1, PutTogether
    <3>4. \A j \in 1..Len(b) : (y \o b)[Len(y) + j] = b[j]
      BY <3>1, PutTogether
    <3> QED
      BY <3>2, <3>3, <3>4
  <2> QED
    BY <1>2, <2>1, Zenon
<1>4. Len(r) \in Nat /\ Len(l) \in Nat /\ Len(b) \in Nat
  OBVIOUS
<1>5. \A j \in 1..Len(r) : j \in 1..Len(y)
  BY <1>1, <1>4
<1>6. \A j \in 1..Len(l) : Len(r) + j \in 1..Len(y)
  BY <1>1, <1>4
<1>7. \A j \in 1..Len(b) : x[Len(r) + Len(l) + j] = b[j]
  BY <1>1, <1>3
<1>8. \A j \in 1..Len(l) : x[Len(r) + j] = l[j]
  BY <1>1, <1>3, <1>6
<1>9. \A j \in 1..Len(r) : x[j] = r[j]
  BY <1>1, <1>3, <1>5
<1> QED
  BY <1>1, <1>3, <1>7, <1>8, <1>9

LEMMA PieceTyped ==
  ASSUME Alphabet, NEW s, NEW f, Spelt(s, f), NEW k \in 1..Len(s)
  PROVE  /\ k \in Nat \ {0} /\ k - 1 \in 0..Len(s) /\ k \in 0..Len(s) /\ s[k] \in Path!Segments
         /\ f[k - 1] \in Strings /\ f[k] \in Strings
         /\ Lead(s, k) \in Strings /\ Body(s, k) \in Strings /\ Len(Body(s, k)) >= 1
         /\ f[k] = f[k - 1] \o Lead(s, k) \o Body(s, k)
<1>1. k \in Nat \ {0} /\ k - 1 \in 0..Len(s) /\ k \in 0..Len(s) /\ s[k] \in Path!Segments
  BY DEF Spelt
<1>2. f[k - 1] \in Strings /\ f[k] \in Strings /\ f[k] = Added(s, f[k - 1], k)
  BY <1>1 DEF Spelt
<1>3. Lead(s, k) \in Strings /\ Body(s, k) \in Strings /\ Len(Body(s, k)) >= 1
  BY <1>1, LeadIs, BodyTyped
<1> QED
  BY <1>1, <1>2, <1>3 DEF Added

Begins(r) == r \in Strings /\ Len(r) <= Len(path) /\ \A j \in 1..Len(r) : path[j] = r[j]

LEMMA Beginnings ==
  ASSUME Alphabet, NEW s, NEW f, Spelt(s, f)
  PROVE  \A k \in 0..Len(s) : Begins(f[k])
<1> DEFINE n == Len(s)
           K == {m \in Nat : m <= n => Begins(f[n - m])}
<1>1. n \in Nat
  BY DEF Spelt
<1>2. 0 \in K
  <2>1. n - 0 = n /\ n \in 0..n
    BY <1>1
  <2>2. f[n] \in Strings /\ path = f[n]
    BY <2>1 DEF Spelt
  <2>3. Begins(f[n])
    BY <2>2 DEF Begins, Strings
  <2> QED
    BY <2>1, <2>3
<1>3. ASSUME NEW m \in Nat, m \in K PROVE m + 1 \in K
  <2> SUFFICES ASSUME m + 1 <= n PROVE Begins(f[n - (m + 1)])
    OBVIOUS
  <2> DEFINE k == n - m
  <2>1. k \in 1..n /\ k - 1 = n - (m + 1) /\ m <= n
    BY <1>1
  <2>2. Begins(f[k])
    BY <1>3, <2>1
  <2> HIDE DEF k
  <2>3. /\ f[k - 1] \in Strings /\ Lead(s, k) \in Strings /\ Body(s, k) \in Strings
        /\ f[k] = f[k - 1] \o Lead(s, k) \o Body(s, k)
    BY <2>1, PieceTyped
  <2> DEFINE r == f[k - 1]
             l == Lead(s, k)
             b == Body(s, k)
             x == f[k]
  <2> HIDE DEF r, l, b, x
  <2>4. /\ x \in Seq(Characters) /\ Len(x) = Len(r) + Len(l) + Len(b)
        /\ \A j \in 1..Len(r) : x[j] = r[j]
    BY <2>3, ThreeParts DEF r, l, b, x, Strings
  <2>5. Len(r) \in Nat /\ Len(l) \in Nat /\ Len(b) \in Nat
    BY <2>3 DEF r, l, b, Strings
  <2>6. Len(x) <= Len(path) /\ \A j \in 1..Len(x) : path[j] = x[j]
    BY <2>2 DEF x, Begins
  <2>7. \A j \in 1..Len(r) : j \in 1..Len(x)
    BY <2>4, <2>5
  <2>8. \A j \in 1..Len(r) : path[j] = r[j]
    BY <2>4, <2>6, <2>7
  <2>9. path \in Seq(Characters)
    <3>1. n \in 0..n
      BY <1>1
    <3> QED
      BY <3>1 DEF Spelt, Strings
  <2>10. Len(r) <= Len(path)
    BY <2>4, <2>5, <2>6, <2>9
  <2> QED
    BY <2>1, <2>3, <2>8, <2>10 DEF r, Begins
<1>4. \A m \in Nat : m \in K
  <2> HIDE DEF K
  <2> QED
    BY <1>2, <1>3, SetInduction
<1>5. ASSUME NEW k \in 0..n PROVE Begins(f[k])
  <2>1. n - k \in Nat /\ n - (n - k) = k /\ n - k <= n
    BY <1>1
  <2>2. Begins(f[n - (n - k)])
    BY <1>4, <2>1
  <2> QED
    BY <2>1, <2>2
<1> QED
  BY <1>5

(* Where the next piece stands in the expression. *)
Follows(t, p) == \A j \in 1..Len(t) : path[p + j] = t[j]

(* Piece k of the expression: l and b behind the first p characters. *)
IsPiece(f, k, p, l, b) ==
  /\ p \in Nat /\ Len(l) \in Nat /\ Len(b) \in Nat /\ Len(b) >= 1
  /\ Len(f[k]) = p + Len(l) + Len(b) /\ Len(f[k]) <= Len(path)
  /\ Follows(l, p) /\ Follows(b, p + Len(l))

LEMMA PieceIs ==
  ASSUME Alphabet, NEW s, NEW f, Spelt(s, f), NEW k \in 1..Len(s), NEW p, p = Len(f[k - 1]),
         NEW l, l = Lead(s, k), NEW b, b = Body(s, k)
  PROVE  IsPiece(f, k, p, l, b)
<1> DEFINE r == f[k - 1]
           x == f[k]
<1>1. k \in 0..Len(s) /\ r \in Strings /\ l \in Strings /\ b \in Strings /\ Len(b) >= 1 /\ x = r \o l \o b
  BY PieceTyped
<1>2. Begins(x)
  BY <1>1, Beginnings
<1> HIDE DEF r, x
<1>3. /\ x \in Seq(Characters) /\ Len(x) = Len(r) + Len(l) + Len(b)
      /\ \A j \in 1..Len(l) : x[Len(r) + j] = l[j]
      /\ \A j \in 1..Len(b) : x[Len(r) + Len(l) + j] = b[j]
  BY <1>1, ThreeParts DEF Strings
<1>4. Len(r) \in Nat /\ Len(l) \in Nat /\ Len(b) \in Nat
  BY <1>1 DEF Strings
<1>5. Len(x) <= Len(path) /\ \A j \in 1..Len(x) : path[j] = x[j]
  BY <1>2 DEF Begins
<1>6. \A j \in 1..Len(l) : Len(r) + j \in 1..Len(x)
  BY <1>3, <1>4
<1>7. \A j \in 1..Len(b) : Len(r) + Len(l) + j \in 1..Len(x)
  BY <1>3, <1>4
<1>8. p = Len(r)
  BY DEF r
<1>9. Follows(l, p) /\ Follows(b, p + Len(l))
  <2>1. \A j \in 1..Len(l) : path[p + j] = l[j]
    BY <1>3, <1>5, <1>6, <1>8
  <2>2. \A j \in 1..Len(b) : path[p + Len(l) + j] = b[j]
    BY <1>3, <1>5, <1>7, <1>8, ZenonT(60)
  <2> QED
    BY <2>1, <2>2 DEF Follows
<1>10. Len(x) = p + Len(l) + Len(b)
  BY <1>3, <1>8
<1> QED
  BY <1>1, <1>4, <1>5, <1>8, <1>9, <1>10 DEF x, IsPiece

(* Behind a piece the expression ends, or a dot or a bracket begins the next. *)
LEMMA BehindPiece ==
  ASSUME Alphabet, NEW s, NEW f, Spelt(s, f), NEW k \in 1..Len(s)
  PROVE  Len(f[k]) = Len(path) \/ path[Len(f[k]) + 1] \in {".", "["}
<1>1. CASE k = Len(s)
  BY <1>1 DEF Spelt
<1>2. CASE k # Len(s)
  <2> DEFINE m == k + 1
             l == Lead(s, m)
             b == Body(s, m)
             p == Len(f[k])
  <2>1. k + 1 \in 1..Len(s) /\ (k + 1) - 1 = k /\ k + 1 \in Nat \ {0} /\ s[k + 1] \in Path!Segments
    BY <1>2 DEF Spelt
  <2>0. m \in 1..Len(s) /\ p = Len(f[m - 1])
    BY <2>1
  <2> HIDE DEF l, b, p, m
  <2>2. /\ p \in Nat /\ Len(l) \in Nat /\ Len(b) \in Nat /\ Len(b) >= 1
        /\ Follows(l, p) /\ Follows(b, p + Len(l))
    <3>1. l = Lead(s, m) /\ b = Body(s, m)
      BY DEF l, b
    <3> QED
      BY <2>0, <3>1, PieceIs, ZenonT(60) DEF IsPiece
  <2>3. Len(l) \in {0, 1} /\ (Len(l) = 1 => l[1] = ".") /\ (Len(l) = 0 => s[k + 1].kind # "key")
    BY <2>1, LeadIs DEF l, m
  <2>4. s[k + 1].kind # "key" => b[1] = "["
    BY <2>1, BodyTyped DEF b, m
  <2>5. CASE Len(l) = 1
    <3>1. path[p + 1] = "."
      BY <2>2, <2>3, <2>5 DEF Follows
    <3> QED
      BY <3>1 DEF p
  <2>6. CASE Len(l) = 0
    <3>1. 1 \in 1..Len(b) /\ p + Len(l) + 1 = p + 1
      BY <2>2, <2>6
    <3>2. path[p + 1] = "["
      BY <2>2, <2>3, <2>4, <2>6, <3>1 DEF Follows
    <3> QED
      BY <3>2 DEF p
  <2> QED
    BY <2>3, <2>5, <2>6
<1> QED
  BY <1>1, <1>2

LEMMA OneMore ==
  ASSUME NEW s, NEW k \in Nat
  PROVE  NamesOf(s, k + 1) = Append(NamesOf(s, k), Path!Named(s[k + 1]))
<1> DEFINE X == {Path!Named(s[i]) : i \in 1..k + 1}
           u == NamesOf(s, k)
           x == NamesOf(s, k + 1)
           e == Path!Named(s[k + 1])
<1>1. k + 1 \in 1..k + 1 /\ e \in X /\ \A i \in 1..k : i \in 1..k + 1
  OBVIOUS
<1>2. u \in [1..k -> X] /\ x \in [1..k + 1 -> X]
  BY <1>1 DEF NamesOf
<1>3. x[k + 1] = e /\ \A i \in 1..k : x[i] = u[i]
  BY <1>1 DEF NamesOf
<1> HIDE DEF X, u, x, e
<1>4. u \in Seq(X) /\ Len(u) = k /\ x \in Seq(X) /\ Len(x) = k + 1
  BY <1>2, FunctionIsSeq
<1>5. /\ Append(u, e) \in Seq(X) /\ Len(Append(u, e)) = k + 1 /\ Append(u, e)[k + 1] = e
      /\ \A i \in 1..k : Append(u, e)[i] = u[i]
  BY <1>1, <1>4
<1>6. \A i \in 1..k + 1 : x[i] = Append(u, e)[i]
  <2>1. \A i \in 1..k + 1 : i \in 1..k \/ i = k + 1
    OBVIOUS
  <2> QED
    BY <1>3, <1>5, <2>1
<1>7. x = Append(u, e)
  BY <1>4, <1>5, <1>6
<1> QED
  BY <1>7 DEF u, x, e

LEMMA ReachedOn ==
  ASSUME Alphabet, ArrayIndexes \in Nat, 10 < ArrayIndexes, path \in Seq(Characters), current \in Nat \ {0},
         current <= Len(path), NEW s, NEW f, Spelt(s, f), Reached(s, f), Path!makePath
  PROVE  Reached(s, f)'
<1> DEFINE n == Len(s)
<1>1. PICK k \in 0..n : args_ = NamesOf(s, k) /\ IsAt(s, f, k)
  BY DEF Reached
<1>2. n \in Nat /\ k \in Nat /\ k # n
  BY <1>1 DEF Spelt, IsAt
<1> DEFINE m == k + 1
           p == Len(f[k])
           l == Lead(s, m)
           b == Body(s, m)
           t == s[m].text
<1>3. m \in 1..n /\ m \in 0..n /\ m - 1 = k /\ m \in Nat \ {0} /\ k < n
  BY <1>1, <1>2
<1>4. s[m] \in Path!Segments
  BY <1>3 DEF Spelt
<1>5. p = Len(f[m - 1])
  BY <1>3
<1>6. NamesOf(s, m) = Append(NamesOf(s, k), Path!Named(s[m]))
  BY <1>2, OneMore
<1>7. (k < n /\ Len(l) = 1 /\ current' = p + 2) \/ current' = p + 1 => IsAt(s, f, k)'
  BY DEF IsAt
<1>8. current' = Len(f[m]) + 1 => IsAt(s, f, m)'
  BY DEF IsAt
<1>9. current = p + 1 \/ (Len(l) = 1 /\ current = p + 2)
  BY <1>1 DEF IsAt
<1> HIDE DEF m, p, l, b, t
<1>10. /\ p \in Nat /\ Len(l) \in Nat /\ Len(b) \in Nat /\ Len(b) >= 1
       /\ Len(f[m]) = p + Len(l) + Len(b) /\ Len(f[m]) <= Len(path)
       /\ Follows(l, p) /\ Follows(b, p + Len(l))
  <2>1. l = Lead(s, m) /\ b = Body(s, m)
    BY DEF l, b
  <2> HIDE DEF n
  <2>2. m \in 1..Len(s)
    BY <1>3 DEF n
  <2>3. IsPiece(f, m, p, l, b)
    BY <1>5, <2>1, <2>2, PieceIs
  <2> QED
    BY <2>3 DEF IsPiece
<1>11. Len(l) \in {0, 1} /\ (Len(l) = 1 => l[1] = ".")
  BY <1>3, LeadIs DEF l
<1>12. CASE current = p + 1 /\ Len(l) = 1
  <2>1. path[current] = "."
    BY <1>10, <1>11, <1>12 DEF Follows
  <2>2. args_' = args_ /\ current' = current + 1
    BY <2>1, DotTurn
  <2>3. current' = p + 2
    BY <1>10, <1>12, <2>2
  <2>4. IsAt(s, f, k)'
    BY <1>3, <1>7, <1>12, <2>3
  <2>5. args_' = NamesOf(s, k)
    BY <1>1, <2>2
  <2> QED
    BY <1>1, <2>4, <2>5 DEF Reached
<1>13. CASE current = p + Len(l) + 1
  <2>1. path[current] = b[1]
    BY <1>10, <1>13 DEF Follows
  <2>2. args_' = NamesOf(s, m) /\ current' = Len(f[m]) + 1
    <3>1. CASE s[m].kind = "key" /\ IsKeyBody(b, t)
      <4>1. b = t /\ Len(b) = 1 /\ t[1] \in {"a", "b"} /\ t = <<t[1]>>
        BY <3>1 DEF IsKeyBody
      <4>2. Len(f[m]) = current
        BY <1>10, <1>13, <4>1
      <4>3. current = Len(path) \/ path[current + 1] \in {".", "["}
        BY <1>3, <4>2, BehindPiece
      <4>4. args_' = Append(args_, Path!MemberName(<<path[current]>>)) /\ current' = current + 1
        BY <2>1, <4>1, <4>3, NameTurn
      <4>5. Path!Named(s[m]) = Path!MemberName(<<path[current]>>)
        BY <2>1, <3>1, <4>1 DEF Path!Named, t
      <4> QED
        BY <1>1, <1>6, <4>2, <4>4, <4>5
    <3>2. CASE s[m].kind = "index" /\ IsIndexBody(b, t)
      <4>1. /\ t \in Seq(DOMAIN Path!DigitOf) /\ t # << >> /\ Len(b) = Len(t) + 2
            /\ b[1] = "[" /\ b[Len(t) + 2] = "]" /\ \A j \in 1..Len(t) : b[j + 1] = t[j]
        BY <3>2 DEF IsIndexBody
      <4>2. Len(t) \in Nat
        BY <4>1
      <4>3. Len(f[m]) = current + Len(t) + 1 /\ current + Len(t) + 1 <= Len(path)
        BY <1>10, <1>13, <4>1, <4>2
      <4>4. ASSUME NEW j \in 1..Len(t) PROVE path[current + j] = t[j]
        <5>1. j + 1 \in 1..Len(b) /\ p + Len(l) + (j + 1) = current + j
          BY <1>10, <1>13, <4>1, <4>2
        <5>2. path[p + Len(l) + (j + 1)] = b[j + 1]
          BY <1>10, <5>1 DEF Follows
        <5> QED
          BY <4>1, <5>1, <5>2
      <4>5. path[current + Len(t) + 1] = "]"
        <5>1. Len(t) + 2 \in 1..Len(b) /\ p + Len(l) + (Len(t) + 2) = current + Len(t) + 1
          BY <1>10, <1>13, <4>1, <4>2
        <5>2. path[p + Len(l) + (Len(t) + 2)] = b[Len(t) + 2]
          BY <1>10, <5>1 DEF Follows
        <5> QED
          BY <4>1, <5>1, <5>2
      <4>6. args_' = Append(args_, Path!Index(Path!indexAt(t))) /\ current' = current + Len(t) + 2
        BY <2>1, <4>1, <4>3, <4>4, <4>5, IndexTurn
      <4>7. Path!Named(s[m]) = Path!Index(Path!indexAt(t))
        BY <1>4, <3>2, IndexIsNamed DEF t
      <4>8. current' = Len(f[m]) + 1
        BY <4>2, <4>3, <4>6
      <4> QED
        BY <1>1, <1>6, <4>6, <4>7, <4>8
    <3> QED
      <4>1. \/ s[m].kind = "key" /\ IsKeyBody(b, t)
            \/ s[m].kind = "index" /\ IsIndexBody(b, t)
        BY <1>3, <1>4, BodyIs DEF b, t
      <4> QED
        BY <3>1, <3>2, <4>1
  <2> QED
    BY <1>3, <1>8, <2>2 DEF Reached
<1>14. (current = p + 1 /\ Len(l) = 1) \/ current = p + Len(l) + 1
  <2>1. CASE current = p + 1
    <3>1. p \in Nat /\ (Len(l) = 0 \/ Len(l) = 1)
      BY <1>10, <1>11
    <3>2. CASE Len(l) = 0
      BY <2>1, <3>1, <3>2
    <3> QED
      BY <2>1, <3>1, <3>2
  <2>2. CASE Len(l) = 1 /\ current = p + 2
    <3>1. p + 2 = p + 1 + 1
      BY <1>10
    <3> QED
      BY <1>10, <2>2, <3>1
  <2> QED
    BY <1>9, <2>1, <2>2
<1> QED
  BY <1>12, <1>13, <1>14

(* The invariant. *)
AllReached == \A s : \A f : Spelt(s, f) => Reached(s, f)
PathInv ==
  /\ path \in Seq(Characters) /\ current \in Nat \ {0}
  /\ in \in Seq(Path!Argument) /\ in # << >>
  /\ args_ \in Seq(Arguments)
  /\ path = <<".">> => args_ = << >>
  /\ AllReached
  /\ call.op = "make" =>
       ~ Path!More /\ Path!IsValue(call.root) /\ Underway(call.root, call.answer, args_)

LEMMA PathInvAtStart ==
  ASSUME Path!PathAssumption, Path!Init
  PROVE  PathInv
<1>1. /\ path \in Seq(Characters) /\ in \in Seq(Path!Argument) /\ in # << >>
      /\ current = 1 /\ args_ = << >> /\ call = Path!NoCall
  BY DEF Path!Init, Path!PathAssumption
<1>2. args_ \in Seq(Arguments) /\ call.op # "make"
  BY <1>1 DEF Path!NoCall
<1>3. ASSUME NEW s, NEW f, Spelt(s, f) PROVE Reached(s, f)
  <2>1. NamesOf(s, 0) = << >>
    BY DEF NamesOf
  <2>2. 0 \in 0..Len(s) /\ Len(f[0]) = 0
    BY <1>3 DEF Spelt
  <2> QED
    BY <1>1, <2>1, <2>2 DEF Reached, IsAt
<1> QED
  BY <1>1, <1>2, <1>3 DEF PathInv, AllReached

LEMMA TurnTyped ==
  ASSUME Path!PathAssumption, PathInv, Path!makePath
  PROVE  args_' \in Seq(Arguments) /\ current' \in Nat \ {0}
<1>1. /\ path \in Seq(Characters) /\ current \in Nat \ {0} /\ in \in Seq(Path!Argument) /\ in # << >>
      /\ args_ \in Seq(Arguments) /\ ArrayIndexes \in Nat /\ 10 < ArrayIndexes
  BY DEF PathInv, Path!PathAssumption
<1>2. ASSUME NEW kind \in {"index", "key"}, Path!addPathInArg(kind) PROVE args_' \in Seq(Arguments)
  <2>1. in[1] \in Path!Argument
    BY <1>1
  <2>2. CASE in[1].kind_ = kind
    <3>1. in[1] \in Arguments
      BY <2>1, <2>2 DEF Arguments
    <3> QED
      BY <1>1, <1>2, <2>2, <3>1 DEF Path!addPathInArg
  <2>3. CASE in[1].kind_ # kind
    BY <1>1, <1>2, <2>3 DEF Path!addPathInArg
  <2> QED
    BY <2>2, <2>3
<1>3. CASE Path!IndexParameter
  <2>1. Path!addPathInArg("index") /\ current' = current + 2
    BY <1>3 DEF Path!IndexParameter
  <2> QED
    BY <1>1, <1>2, <2>1
<1>4. CASE Path!KeyParameter
  <2>1. Path!addPathInArg("key") /\ current' = current + 1
    BY <1>4 DEF Path!KeyParameter
  <2> QED
    BY <1>1, <1>2, <2>1
<1>5. CASE Path!Dot
  BY <1>1, <1>5 DEF Path!Dot
<1>6. CASE Path!Name
  <2> DEFINE r == Rest(current)
             name == Before(r, NameStops)
  <2>1. r \in Seq(Characters) /\ NameStops \in SUBSET (1..Len(r))
    BY <1>1, RestIs DEF NameStops
  <2> HIDE DEF r
  <2>2. name \in Seq(Characters)
    BY <2>1, BeforeTyped
  <2>3. Path!RunOf(Path!InName) = name
    BY RunsAre DEF r
  <2>4. args_' = Append(args_, Path!MemberName(name)) /\ current' = current + Len(name)
    BY <1>6, <2>3 DEF Path!Name
  <2> HIDE DEF name
  <2>5. Path!MemberName(name) \in Arguments
    BY <1>1, <2>2 DEF Path!MemberName, Arguments, Path!Argument
  <2> QED
    BY <1>1, <2>2, <2>4, <2>5
<1>7. CASE Path!IndexInPath
  <2> DEFINE r == Rest(current + 1)
             digits == Before(r, DigitStops)
  <2>1. r \in Seq(Characters) /\ DigitStops = {i \in 1..Len(r) : r[i] \notin DOMAIN Path!DigitOf}
    BY <1>1, RestIs DEF DigitStops
  <2> HIDE DEF r
  <2>2. /\ digits \in Seq(Characters)
        /\ \A i \in 1..Len(digits) : i \in 1..Len(r) /\ i \notin DigitStops /\ digits[i] = r[i]
    BY <2>1, BeforeTyped
  <2>3. Path!Digits = digits
    BY RunsAre DEF r
  <2> HIDE DEF digits
  <2>4. digits \in Seq(DOMAIN Path!DigitOf)
    <3>1. \A i \in 1..Len(digits) : digits[i] \in DOMAIN Path!DigitOf
      BY <2>1, <2>2
    <3> QED
      BY <2>2, <3>1
  <2>5. Path!indexAt(digits) \in IndexNumbers
    <3>1. PICK f \in [0..Len(digits) -> IndexNumbers] : Path!indexAt(digits) = f[Len(digits)]
      BY <1>1, <2>4, IndexAtIs
    <3>2. Len(digits) \in 0..Len(digits)
      BY <2>2
    <3> QED
      BY <3>1, <3>2
  <2>6. Path!Index(Path!indexAt(digits)) \in Arguments
    <3>1. << >> \in Seq(Characters)
      OBVIOUS
    <3> QED
      BY <2>5, <3>1 DEF Path!Index, Arguments, Path!Argument, IndexNumbers
  <2>7. args_' = Append(args_, Path!Index(Path!indexAt(digits)))
    BY <1>7, <2>3 DEF Path!IndexInPath
  <2>8. current' \in Nat \ {0}
    <3> DEFINE stops == {current + Len(digits) + 2, Len(path) + 1}
    <3>1. stops \in SUBSET (1..current + Len(digits) + 2 + Len(path)) /\ stops # {}
      BY <1>1, <2>2
    <3>2. current + Len(digits) + 2 + Len(path) \in Nat
      BY <1>1, <2>2
    <3>3. current' = Path!Min(stops)
      BY <1>7, <2>3 DEF Path!IndexInPath
    <3> HIDE DEF stops
    <3>4. Path!Min(stops) \in stops
      BY <3>1, <3>2, FirstStop
    <3>5. \A x \in stops : x \in Nat \ {0}
      BY <3>1, <3>2
    <3> QED
      BY <3>3, <3>4, <3>5
  <2> QED
    BY <1>1, <2>6, <2>7, <2>8
<1> QED
  BY <1>3, <1>4, <1>5, <1>6, <1>7 DEF Path!makePath

LEMMA PathInvKept ==
  ASSUME Path!PathAssumption, PathInv, [Path!Next]_(Path!vars)
  PROVE  PathInv'
<1>1. CASE Path!makePath
  <2>1. path' = path /\ in' = in /\ call' = call /\ current <= Len(path)
    BY <1>1 DEF Path!makePath, Path!IndexParameter, Path!IndexInPath, Path!KeyParameter, Path!Dot,
                Path!Name, Path!More
  <2>2. args_' \in Seq(Arguments) /\ current' \in Nat \ {0}
    BY <1>1, TurnTyped
  <2>3. call'.op # "make"
    BY <2>1 DEF PathInv, Path!More
  <2>4. path = <<".">> => args_' = << >>
    <3> SUFFICES ASSUME path = <<".">> PROVE args_' = << >>
      OBVIOUS
    <3>1. current = 1 /\ path \in Seq(Characters) /\ args_ = << >>
      BY <2>1 DEF PathInv
    <3>2. path[current] = "."
      BY <3>1
    <3>3. args_' = args_
      BY <1>1, <2>1, <3>1, <3>2, DotTurn
    <3> QED
      BY <3>1, <3>3
  <2>5. ASSUME NEW s, NEW f, Spelt(s, f)' PROVE Reached(s, f)'
    <3>1. Spelt(s, f)
      BY <2>1, <2>5 DEF Spelt
    <3>2. Reached(s, f)
      BY <3>1 DEF PathInv, AllReached
    <3>3. /\ Alphabet /\ ArrayIndexes \in Nat /\ 10 < ArrayIndexes
          /\ path \in Seq(Characters) /\ current \in Nat \ {0}
      BY DEF PathInv, Path!PathAssumption, Alphabet
    <3> QED
      BY <1>1, <2>1, <3>1, <3>2, <3>3, ReachedOn
  <2>6. AllReached'
    BY <2>5 DEF AllReached
  <2> QED
    BY <2>1, <2>2, <2>3, <2>4, <2>6 DEF PathInv
<1>2. CASE Path!Apply \/ UNCHANGED Path!vars
  <2>0. UNCHANGED <<path, in, current, args_>>
    BY <1>2 DEF Path!Apply, Path!vars
  <2>1. AllReached'
    <3>1. ASSUME NEW s, NEW f, Spelt(s, f)' PROVE Reached(s, f)'
      <4>1. Spelt(s, f)
        BY <2>0, <3>1 DEF Spelt
      <4>2. Reached(s, f)
        BY <4>1 DEF PathInv, AllReached
      <4> QED
        BY <2>0, <4>2 DEF Reached, IsAt
    <3> QED
      BY <3>1 DEF AllReached
  <2>2. SUFFICES call'.op = "make" =>
                   ~ Path!More /\ Path!IsValue(call'.root) /\ Underway(call'.root, call'.answer, args_)
    BY <2>0, <2>1 DEF PathInv, Path!More
  <2>3. CASE call' = call
    BY <2>3 DEF PathInv
  <2>4. CASE Path!Apply
    <3> SUFFICES ASSUME call'.op = "make"
                 PROVE  ~ Path!More /\ Path!IsValue(call'.root) /\ Underway(call'.root, call'.answer, args_)
      OBVIOUS
    <3>1. PICK root \in Roots :
             \/ Path!Call("resolve", root, Path!resolve(root))
             \/ Path!Call("resolveOr", root, Path!resolveOr(root))
             \/ Path!Call("make", root, Path!make(root))
      BY <2>4 DEF Path!Apply
    <3>2. call' = [op |-> "make", root |-> root, answer |-> Path!make(root)]
      BY <3>1 DEF Path!Call
    <3>3. Path!IsValue(root) /\ args_ \in Seq(Arguments)
      BY DEF Path!PathAssumption, PathInv
    <3>4. Underway(root, Path!make(root), args_)
      BY <3>3, MakeComesTo
    <3>5. ~ Path!More
      BY <2>4 DEF Path!Apply
    <3> QED
      BY <3>2, <3>3, <3>4, <3>5
  <2> QED
    BY <1>2, <2>3, <2>4 DEF Path!vars
<1> QED
  BY <1>1, <1>2 DEF Path!Next

(* make() reaches the node that the expression names, or changes nothing. *)
LEMMA AllOrNothing ==
  ASSUME Path!PathAssumption, PathInv
  PROVE  Path!MakeIsAllOrNothing
<1> SUFFICES ASSUME call.op = "make" PROVE Path!MakeIsAllOrNothing
  BY DEF Path!MakeIsAllOrNothing
<1> DEFINE root == call.root
           made == call.answer
<1>1. ~ Path!More /\ Path!IsValue(root) /\ Underway(root, made, args_) /\ args_ \in Seq(Arguments)
  BY DEF PathInv
<1>2. CASE made.threw
  BY <1>1, <1>2 DEF Path!MakeIsAllOrNothing, Underway
<1>3. CASE ~ made.threw
  <2>1. /\ made.at = args_ /\ args_ \in DOMAIN made.root /\ Path!IsValue(made.root)
        /\ \A p \in DOMAIN root : root[p] \in {"null", made.root[p]}
    BY <1>1, <1>3 DEF Underway
  <2>2. Path!resolve(made.root) = Path!At(made.at) /\ Path!resolveOr(made.root) = Path!At(made.at)
    BY <1>1, <2>1, FoundByName
  <2>3. ASSUME NEW s \in Path!BoundedSeq(Path!Segments, 3), Path!Text(s) = path
        PROVE  made.at = [i \in 1..Len(s) |-> Path!Named(s[i])]
    <3>1. s \in Seq(Path!Segments)
      <4>1. PICK m \in 0..3 : s \in [1..m -> Path!Segments]
        BY DEF Path!BoundedSeq, Path!SeqOf
      <4>2. m \in Nat
        OBVIOUS
      <4> QED
        BY <4>1, <4>2, FunctionIsSeq
    <3>2. CASE s = << >>
      <4>1. path = <<".">>
        BY <2>3, <3>2 DEF Path!Text
      <4>2. args_ = << >>
        BY <4>1 DEF PathInv
      <4>3. [i \in 1..Len(s) |-> Path!Named(s[i])] = << >>
        BY <3>2
      <4> QED
        BY <2>1, <4>2, <4>3
    <3>3. CASE s # << >>
      <4> DEFINE n == Len(s)
      <4>0. Alphabet /\ n \in Nat
        BY <3>1 DEF Path!PathAssumption, Alphabet
      <4>1. PICK f \in [0..n -> Strings] :
               /\ f[0] = << >> /\ Path!Text(s) = f[n]
               /\ \A k \in 1..n : f[k] = Added(s, f[k - 1], k)
        BY <3>1, <3>3, <4>0, TextIs
      <4>2. Spelt(s, f)
        BY <2>3, <3>1, <4>1 DEF Spelt
      <4>3. PICK k \in 0..n : args_ = NamesOf(s, k) /\ IsAt(s, f, k)
        BY <4>2 DEF PathInv, AllReached, Reached
      <4>4. current > Len(path) /\ path = f[n] /\ current \in Nat
        BY <1>1, <4>2 DEF Path!More, PathInv, Spelt
      <4>5. k = n
        <5> SUFFICES ASSUME k # n PROVE FALSE
          OBVIOUS
        <5> DEFINE m == k + 1
                   p == Len(f[k])
                   l == Lead(s, m)
                   b == Body(s, m)
        <5>1. m \in 1..n /\ m - 1 = k /\ p = Len(f[m - 1])
          BY <4>0
        <5>2. current = p + 1 \/ (Len(l) = 1 /\ current = p + 2)
          BY <4>3 DEF IsAt
        <5> HIDE DEF m, p, l, b
        <5>3. l = Lead(s, m) /\ b = Body(s, m)
          BY DEF l, b
        <5>4. /\ p \in Nat /\ Len(l) \in Nat /\ Len(b) \in Nat /\ Len(b) >= 1
              /\ Len(f[m]) = p + Len(l) + Len(b) /\ Len(f[m]) <= Len(path)
          BY <4>0, <4>2, <5>1, <5>3, PieceIs, SMTT(40) DEF IsPiece
        <5>5. Len(path) \in Nat
          BY DEF PathInv
        <5>6. current \in Nat /\ current > Len(path)
          BY <4>4
        <5>7. Len(l) \in {0, 1} => Len(f[m]) >= current
          BY <5>2, <5>4
        <5>8. Len(l) \in {0, 1}
          BY <4>0, <5>1, LeadIs DEF l
        <5>9. Len(f[m]) \in Nat /\ Len(f[m]) <= Len(path)
          BY <5>4
        <5> QED
          BY <5>5, <5>6, <5>7, <5>8, <5>9
      <4> QED
        BY <2>1, <4>3, <4>5 DEF NamesOf
    <3> QED
      BY <3>2, <3>3
  <2> QED
    BY <1>3, <2>1, <2>2, <2>3 DEF Path!MakeIsAllOrNothing
<1> QED
  BY <1>2, <1>3

(* Path::make() creates the node that the expression names, which the path then finds, and     *)
(* loses nothing; or it throws and has created nothing.                                        *)
THEOREM MakeAlwaysAllOrNothing ==
  ASSUME Path!PathAssumption
  PROVE  Path!Spec => []MakeIsAllOrNothing
<1>1. Path!Init => PathInv
  BY PathInvAtStart
<1>2. PathInv /\ [Path!Next]_(Path!vars) => PathInv'
  BY PathInvKept
<1>3. PathInv => MakeIsAllOrNothing
  BY AllOrNothing DEF MakeIsAllOrNothing
<1> QED
  BY <1>1, <1>2, <1>3, PTL DEF Path!Spec
===============================================================================
