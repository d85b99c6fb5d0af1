----------------------------- MODULE OrdersProofs -----------------------------
(***************************************************************************)
(* Proofs about Orders: pool slots are neither lost nor used twice, and    *)
(* Orders implements OrderQueue, for every pool size and set of orders.    *)
(***************************************************************************)
EXTENDS Orders, SequenceTheorems, FiniteSetTheorems, TLAPS

USE OrdersAssumption

Inv == TypeOK /\ SlotsAccounted

(* Of the empty queue, and of the pool before its first order.             *)
LEMMA EmptySequence ==
  /\ DOMAIN << >> = {}
  /\ \A S : << >> \in Seq(S) /\ << >> \in [{} -> S]
OBVIOUS

LEMMA InitEstablishes == Init => Inv
<1> SUFFICES ASSUME Init PROVE Inv
  OBVIOUS
<1>1. pool_data \in [DOMAIN pool_data -> Order] /\ DOMAIN pool_data = {}
  BY EmptySequence DEF Init
<1>2. m_orders \in Seq(DOMAIN pool_data) /\ Queued = {} /\ Held = {}
  BY EmptySequence DEF Init, Queued, Held
<1> QED
  BY <1>1, <1>2, EmptySequence DEF Init, Inv, TypeOK, SlotsAccounted

(* Adding an order moves one slot from the pool to the end of the queue.   *)
LEMMA AddOrderPreserves ==
  ASSUME Inv, NEW o \in Order, AddOrder(o)
  PROVE  Inv'
<1>1. CASE pool_free = {} /\ outcome' = "full" /\ UNCHANGED <<queue_vars, consumer_vars>>
  BY <1>1 DEF Inv, TypeOK, SlotsAccounted, Queued, Held, queue_vars, consumer_vars
<1>2. ASSUME NEW s \in pool_free, Construct(s, o), m_orders' = Push(s),
             outcome' = "stored", UNCHANGED consumer_vars
      PROVE  Inv'
  <2>1. /\ s \in Slot /\ s \notin Queued /\ s \notin Held
        /\ pool_free' = pool_free \ {s}
        /\ DOMAIN pool_data' = DOMAIN pool_data \cup {s}
    BY <1>2 DEF Inv, TypeOK, SlotsAccounted, Construct
  <2>2. /\ m_orders \in Seq(DOMAIN pool_data)
        /\ m_orders' = Append(m_orders, s)
        /\ Len(m_orders') = Len(m_orders) + 1
        /\ \A i \in DOMAIN m_orders : m_orders'[i] = m_orders[i]
        /\ m_orders'[Len(m_orders) + 1] = s
        /\ DOMAIN m_orders' = DOMAIN m_orders \cup {Len(m_orders) + 1}
    BY <1>2 DEF Inv, TypeOK, Push
  <2>3. m_orders' \in Seq(DOMAIN pool_data')
    <3>1. m_orders \in Seq(DOMAIN pool_data')
      BY <2>1, <2>2
    <3> QED
      BY <2>1, <2>2, <3>1
  <2>4. TypeOK'
    BY <1>2, <2>1, <2>3 DEF Inv, TypeOK, Construct, consumer_vars
  <2>5. Queued' = Queued \cup {s} /\ Held' = Held
    BY <1>2, <2>2 DEF Queued, Held, consumer_vars
  <2>6. \A i, j \in DOMAIN m_orders' : i # j => m_orders'[i] # m_orders'[j]
    BY <2>1, <2>2 DEF Inv, SlotsAccounted, Queued
  <2> QED
    BY <1>2, <2>1, <2>4, <2>5, <2>6 DEF Inv, SlotsAccounted, consumer_vars
<1> QED
  BY <1>1, <1>2 DEF AddOrder

(* Fetching moves the first queued slot to the consumer.                   *)
LEMMA GetOrderPreserves ==
  ASSUME Inv, GetOrder
  PROVE  Inv'
<1>1. CASE m_orders = << >>
  BY <1>1 DEF GetOrder, Inv, TypeOK, SlotsAccounted, Queued, Held
<1>2. CASE m_orders # << >>
  <2>1. /\ m_orders' = Tail(m_orders) /\ incoming' = Head(m_orders)
        /\ UNCHANGED <<pool_free, pool_data, order, outcome>>
        /\ fetching' = TRUE /\ incoming = NULL
    BY <1>2 DEF GetOrder, Inv, TypeOK
  <2>2. /\ m_orders \in Seq(DOMAIN pool_data)
        /\ Len(m_orders) \in Nat /\ Len(m_orders) > 0
        /\ DOMAIN m_orders = 1 .. Len(m_orders)
        /\ Len(m_orders') = Len(m_orders) - 1
        /\ DOMAIN m_orders' = 1 .. Len(m_orders) - 1
        /\ \A i \in DOMAIN m_orders' : m_orders'[i] = m_orders[i + 1]
        /\ incoming' = m_orders[1]
    BY <1>2, <2>1 DEF Inv, TypeOK
  <2>3. TypeOK'
    <3>1. m_orders' \in Seq(DOMAIN pool_data') /\ incoming' \in DOMAIN pool_data'
      BY <1>2, <2>1, <2>2
    <3> QED
      BY <2>1, <3>1 DEF Inv, TypeOK
  <2>4. Queued' = Queued \ {incoming'} /\ incoming' \in Queued
    <3>1. \A i \in DOMAIN m_orders : i # 1 => m_orders[i] # m_orders[1] /\ i - 1 \in DOMAIN m_orders'
      BY <2>2 DEF Inv, SlotsAccounted
    <3>2. \A i \in DOMAIN m_orders' : i + 1 \in DOMAIN m_orders /\ i + 1 # 1
      BY <2>2
    <3>3. \A i \in DOMAIN m_orders : i # 1 => m_orders'[i - 1] = m_orders[i]
      BY <2>2
    <3> QED
      BY <2>2, <3>1, <3>2, <3>3 DEF Queued
  <2>5. incoming' # NULL /\ Held' = Held \cup {incoming'} /\ order' # incoming'
    BY <2>1, <2>3, <2>4 DEF Held, Inv, TypeOK, SlotsAccounted
  <2>6. \A i, j \in DOMAIN m_orders' : i # j => m_orders'[i] # m_orders'[j]
    BY <2>2 DEF Inv, SlotsAccounted
  <2> QED
    BY <2>1, <2>3, <2>4, <2>5, <2>6 DEF Inv, SlotsAccounted
<1> QED
  BY <1>1, <1>2

(* Assigning gives back the slot of the order held before.                 *)
LEMMA AssignPreserves ==
  ASSUME Inv, Assign
  PROVE  Inv'
BY DEF Assign, Inv, TypeOK, SlotsAccounted, Queued, Held, FreedByAssigning

(* Clearing gives back the slots of the queue.                             *)
LEMMA ClearPreserves ==
  ASSUME Inv, Clear
  PROVE  Inv'
<1>1. m_orders' \in Seq(DOMAIN pool_data') /\ DOMAIN m_orders' = {} /\ Queued' = {}
  BY EmptySequence DEF Clear, Queued
<1>2. pool_free' = pool_free \cup Queued /\ Held' = Held /\ Queued \subseteq Slot
  BY DEF Clear, Held, consumer_vars, Inv, TypeOK, Queued
<1>3. TypeOK'
  BY <1>1, <1>2 DEF Clear, consumer_vars, Inv, TypeOK
<1> QED
  BY <1>1, <1>2, <1>3 DEF Clear, consumer_vars, Inv, SlotsAccounted

LEMMA Invariance == Spec => []Inv
<1>1. Inv /\ [Next]_vars => Inv'
  <2> SUFFICES ASSUME Inv, [Next]_vars PROVE Inv'
    OBVIOUS
  <2>1. CASE UNCHANGED vars
    BY <2>1 DEF vars, queue_vars, consumer_vars, Inv, TypeOK, SlotsAccounted, Queued, Held
  <2> QED
    BY <2>1, AddOrderPreserves, GetOrderPreserves, AssignPreserves, ClearPreserves DEF Next
<1> QED
  BY InitEstablishes, <1>1, PTL DEF Spec

(* The queue's pointers and the consumer's always refer to constructed     *)
(* slots.                                                                  *)
THEOREM TypeCorrect == Spec => []TypeOK
BY Invariance, PTL DEF Inv

(* Whatever the pool size, every slot is free, queued once or held.        *)
THEOREM SlotsAlwaysAccounted == Spec => []SlotsAccounted
BY Invariance, PTL DEF Inv

-------------------------------------------------------------------------------
(* Orders implements the queue of OrderQueue.                              *)

LEMMA ShortSequences ==
  ASSUME NEW x, NEW y
  PROVE  /\ << >> \o << >> = << >>
         /\ << >> \o <<y>> = <<y>>
         /\ <<x>> \o << >> = <<x>>
         /\ <<x>> \o <<y>> = <<x, y>>
         /\ Len(<< >>) = 0 /\ Len(<<x>>) = 1 /\ Len(<<x, y>>) = 2
<1> DEFINE S == {x, y}
<1>1. /\ << >> \in Seq(S) /\ <<x>> \in Seq(S) /\ <<y>> \in Seq(S) /\ <<x, y>> \in Seq(S)
      /\ Len(<< >>) = 0 /\ Len(<<x>>) = 1 /\ Len(<<y>>) = 1 /\ Len(<<x, y>>) = 2
  OBVIOUS
<1>2. << >> \o << >> = << >> /\ << >> \o <<y>> = <<y>> /\ <<x>> \o << >> = <<x>>
  BY <1>1, ConcatEmptySeq, Zenon
<1>3. <<x>> \o <<y>> = <<x, y>>
  <2>1. /\ <<x>> \o <<y>> \in Seq(S) /\ Len(<<x>> \o <<y>>) = 2
        /\ (<<x>> \o <<y>>)[1] = x /\ (<<x>> \o <<y>>)[2] = y
    BY <1>1, ConcatProperties
  <2>2. \A i \in 1..Len(<<x>> \o <<y>>) : (<<x>> \o <<y>>)[i] = <<x, y>>[i]
    BY <2>1
  <2> QED
    BY <1>1, <2>1, <2>2, SeqEqual
<1> QED
  BY <1>1, <1>2, <1>3

LEMMA TailOfOne == ASSUME NEW x PROVE <<x>> # << >> /\ Tail(<<x>>) = << >>
OBVIOUS

LEMMA TailOfTwo == ASSUME NEW x, NEW y PROVE <<x, y>> # << >> /\ Tail(<<x, y>>) = <<y>>
<1> DEFINE S == {x, y}
<1>1. <<x, y>> \in Seq(S) /\ <<y>> \in Seq(S) /\ Len(<<x, y>>) = 2 /\ Len(<<y>>) = 1
      /\ <<x, y>> # << >> /\ <<x, y>>[2] = y /\ <<y>>[1] = y
  OBVIOUS
<1>2. /\ Tail(<<x, y>>) \in Seq(S) /\ Len(Tail(<<x, y>>)) = 1
      /\ \A i \in 1..1 : Tail(<<x, y>>)[i] = <<x, y>>[i + 1]
  BY <1>1, HeadTailProperties
<1>3. \A i \in 1..1 : Tail(<<x, y>>)[i] = <<y>>[i]
  BY <1>1, <1>2
<1> QED
  BY <1>1, <1>2, <1>3, SeqEqual

(* The four states of the consumer's pointers.                             *)
LEMMA HandCases ==
  /\ order = NULL /\ incoming = NULL => Hand = << >> /\ Len(Hand) = 0
  /\ order = NULL /\ incoming # NULL => Hand = <<incoming>> /\ Len(Hand) = 1
  /\ order # NULL /\ incoming = NULL => Hand = <<order>> /\ Len(Hand) = 1
  /\ order # NULL /\ incoming # NULL => Hand = <<order, incoming>> /\ Len(Hand) = 2
BY ShortSequences, Zenon DEF Hand

LEMMA DisjointUnion ==
  ASSUME NEW A, NEW B, IsFiniteSet(A), IsFiniteSet(B), A \cap B = {}
  PROVE  /\ IsFiniteSet(A \cup B)
         /\ Cardinality(A \cup B) = Cardinality(A) + Cardinality(B)
<1>1. Cardinality(A) \in Nat /\ Cardinality(B) \in Nat
  BY FS_CardinalityType
<1>2. Cardinality(A \cap B) = 0
  BY FS_EmptySet, Zenon
<1>3. IsFiniteSet(A \cup B) /\ Cardinality(A \cup B) = Cardinality(A) + Cardinality(B) - Cardinality(A \cap B)
  BY FS_Union, Zenon
<1> QED
  BY <1>1, <1>2, <1>3

LEMMA HandTyped == Inv => Hand \in Seq(DOMAIN pool_data)
<1> SUFFICES ASSUME Inv PROVE Hand \in Seq(DOMAIN pool_data)
  OBVIOUS
<1> DEFINE D == DOMAIN pool_data
<1>1. order \in D \cup {NULL} /\ incoming \in D \cup {NULL}
  BY DEF Inv, TypeOK
<1> HIDE DEF D
<1>2. CASE order = NULL /\ incoming = NULL
  BY <1>2, HandCases
<1>3. CASE order = NULL /\ incoming # NULL
  <2>1. <<incoming>> \in Seq(D)
    BY <1>1, <1>3
  <2> QED
    BY <1>3, <2>1, HandCases DEF D
<1>4. CASE order # NULL /\ incoming = NULL
  <2>1. <<order>> \in Seq(D)
    BY <1>1, <1>4
  <2> QED
    BY <1>4, <2>1, HandCases DEF D
<1>5. CASE order # NULL /\ incoming # NULL
  <2>1. <<order, incoming>> \in Seq(D)
    BY <1>1, <1>5
  <2> QED
    BY <1>5, <2>1, HandCases DEF D
<1> QED
  BY <1>2, <1>3, <1>4, <1>5

(* Data() keeps length and places.                                         *)
LEMMA DataOf ==
  ASSUME Inv, NEW s \in Seq(DOMAIN pool_data)
  PROVE  /\ Data(s) \in Seq(Order) /\ Len(Data(s)) = Len(s) /\ Len(s) \in Nat
         /\ \A i \in 1..Len(s) : Data(s)[i] = pool_data[s[i]]
<1>1. Len(s) \in Nat /\ DOMAIN s = 1..Len(s) /\ \A i \in 1..Len(s) : s[i] \in DOMAIN pool_data
  BY LenProperties, ElementOfSeq
<1>2. \A i \in 1..Len(s) : pool_data[s[i]] \in Order
  BY <1>1 DEF Inv, TypeOK
<1> QED
  BY <1>1, <1>2 DEF Data

(* The slots that are not free are as many as the orders outstanding.      *)
LEMMA OutstandingCounted ==
  ASSUME Inv
  PROVE  /\ Cardinality(Slot) \in Nat /\ Cardinality(pool_free) \in Nat
         /\ Len(m_orders) + Len(Hand) = Cardinality(Slot) - Cardinality(pool_free)
         /\ (pool_free = {} <=> Cardinality(pool_free) = 0)
<1>1. /\ IsFiniteSet(Slot) /\ Queued \subseteq Slot /\ Held \subseteq Slot /\ pool_free \subseteq Slot
  BY OrdersAssumption DEF Inv, TypeOK, Queued, Held
<1>2. IsFiniteSet(Queued) /\ IsFiniteSet(Held) /\ IsFiniteSet(pool_free)
  BY <1>1, FS_Subset
<1>3. /\ Cardinality(Slot) \in Nat /\ Cardinality(pool_free) \in Nat
      /\ Cardinality(Queued) \in Nat /\ Cardinality(Held) \in Nat
  BY <1>1, <1>2, FS_CardinalityType
<1>4. Cardinality(Queued) = Len(m_orders)
  <2>1. Len(m_orders) \in Nat /\ m_orders \in [1..Len(m_orders) -> DOMAIN pool_data]
        /\ DOMAIN m_orders = 1..Len(m_orders)
    BY LenProperties DEF Inv, TypeOK
  <2>2. m_orders \in [1..Len(m_orders) -> Queued]
    BY <2>1 DEF Queued
  <2>3. m_orders \in Injection(1..Len(m_orders), Queued)
    BY <2>1, <2>2 DEF Injection, IsInjective, Inv, SlotsAccounted
  <2>4. m_orders \in Surjection(1..Len(m_orders), Queued)
    BY <2>1, <2>2 DEF Surjection, Queued
  <2>5. ExistsBijection(1..Len(m_orders), Queued)
    BY <2>3, <2>4 DEF ExistsBijection, Bijection
  <2> QED
    BY <2>1, <2>5, FS_CountingElements
<1>5. Cardinality(Held) = Len(Hand)
  <2>1. CASE order = NULL /\ incoming = NULL
    <3>1. Held = {}
      BY <2>1 DEF Held
    <3> QED
      BY <2>1, <3>1, HandCases, FS_EmptySet
  <2>2. CASE order = NULL /\ incoming # NULL
    <3>1. Held = {incoming}
      BY <2>2 DEF Held
    <3> QED
      BY <2>2, <3>1, HandCases, FS_Singleton
  <2>3. CASE order # NULL /\ incoming = NULL
    <3>1. Held = {order}
      BY <2>3 DEF Held
    <3> QED
      BY <2>3, <3>1, HandCases, FS_Singleton
  <2>4. CASE order # NULL /\ incoming # NULL
    <3>1. Held = {order} \cup {incoming} /\ incoming \notin {order}
      BY <2>4 DEF Held, Inv, SlotsAccounted
    <3>2. IsFiniteSet({order}) /\ Cardinality({order}) = 1 /\ IsFiniteSet({incoming})
          /\ Cardinality({incoming}) = 1 /\ {order} \cap {incoming} = {}
      BY <3>1, FS_Singleton
    <3>3. Cardinality({order} \cup {incoming}) = Cardinality({order}) + Cardinality({incoming})
      BY <3>2, DisjointUnion, Zenon
    <3>4. Cardinality(Held) = 2
      BY <3>1, <3>2, <3>3
    <3> QED
      BY <2>4, <3>4, HandCases
  <2> QED
    BY <2>1, <2>2, <2>3, <2>4
<1>6. /\ IsFiniteSet(Queued \cup Held)
      /\ Cardinality(Queued \cup Held) = Cardinality(Queued) + Cardinality(Held)
  <2>1. Queued \cap Held = {}
    BY DEF Inv, SlotsAccounted
  <2> QED
    BY <1>2, <2>1, DisjointUnion, Zenon
<1>7. Cardinality(Slot) = Cardinality(pool_free) + Cardinality(Queued \cup Held)
  <2>1. pool_free \cap (Queued \cup Held) = {} /\ pool_free \cup (Queued \cup Held) = Slot
    BY <1>1 DEF Inv, SlotsAccounted
  <2>2. Cardinality(pool_free \cup (Queued \cup Held))
          = Cardinality(pool_free) + Cardinality(Queued \cup Held)
    BY <1>2, <1>6, <2>1, DisjointUnion, Zenon
  <2> QED
    BY <2>1, <2>2, Zenon
<1>8. pool_free = {} <=> Cardinality(pool_free) = 0
  BY <1>2, FS_EmptySet
<1> QED
  BY <1>3, <1>4, <1>5, <1>6, <1>7, <1>8

(* What Data() makes of the operations on the queue.                       *)
LEMMA DataOfEmpty == Data(<< >>) = << >>
BY DEF Data

LEMMA DataOfAppend ==
  ASSUME Inv, NEW s \in Seq(DOMAIN pool_data), NEW t \in DOMAIN pool_data
  PROVE  Data(Append(s, t)) = Append(Data(s), pool_data[t])
<1> DEFINE u == Append(s, t)
           v == Append(Data(s), pool_data[t])
<1>1. u \in Seq(DOMAIN pool_data) /\ Len(u) = Len(s) + 1 /\ u[Len(s) + 1] = t
      /\ \A i \in 1..Len(s) : u[i] = s[i]
  BY AppendProperties
<1>2. pool_data[t] \in Order
  BY DEF Inv, TypeOK
<1>3. /\ Data(s) \in Seq(Order) /\ Len(Data(s)) = Len(s) /\ Len(s) \in Nat
      /\ \A i \in 1..Len(s) : Data(s)[i] = pool_data[s[i]]
  BY DataOf
<1>4. v \in Seq(Order) /\ Len(v) = Len(s) + 1 /\ v[Len(s) + 1] = pool_data[t]
      /\ \A i \in 1..Len(s) : v[i] = Data(s)[i]
  BY <1>2, <1>3, AppendProperties
<1>5. Data(u) \in Seq(Order) /\ Len(Data(u)) = Len(u)
      /\ \A i \in 1..Len(u) : Data(u)[i] = pool_data[u[i]]
  BY <1>1, DataOf
<1> HIDE DEF u, v
<1>6. ASSUME NEW i \in 1..Len(Data(u)) PROVE Data(u)[i] = v[i]
  <2>1. i \in 1..Len(u)
    BY <1>5
  <2>2. Data(u)[i] = pool_data[u[i]]
    BY <2>1, <1>5
  <2>3. CASE i \in 1..Len(s)
    BY <2>2, <2>3, <1>1, <1>3, <1>4
  <2>4. CASE i = Len(s) + 1
    BY <2>2, <2>4, <1>1, <1>4
  <2> QED
    BY <2>1, <2>3, <2>4, <1>1, <1>3
<1>7. Data(u) = v
  BY <1>1, <1>4, <1>5, <1>6, SeqEqual
<1> QED
  BY <1>7 DEF u, v

LEMMA DataOfTail ==
  ASSUME Inv, NEW s \in Seq(DOMAIN pool_data), s # << >>
  PROVE  /\ Data(s) # << >> /\ Head(Data(s)) = pool_data[Head(s)]
         /\ Data(Tail(s)) = Tail(Data(s))
<1>1. Tail(s) \in Seq(DOMAIN pool_data) /\ Len(Tail(s)) = Len(s) - 1
      /\ \A i \in 1..Len(Tail(s)) : Tail(s)[i] = s[i + 1]
  BY HeadTailProperties
<1>2. /\ Data(s) \in Seq(Order) /\ Len(Data(s)) = Len(s) /\ Len(s) \in Nat
      /\ \A i \in 1..Len(s) : Data(s)[i] = pool_data[s[i]]
  BY DataOf
<1>3. Len(s) > 0
  BY <1>2, EmptySeq
<1>4. Data(s) # << >> /\ Head(Data(s)) = pool_data[Head(s)]
  BY <1>2, <1>3
<1>5. Tail(Data(s)) \in Seq(Order) /\ Len(Tail(Data(s))) = Len(s) - 1
      /\ \A i \in 1..Len(Tail(Data(s))) : Tail(Data(s))[i] = Data(s)[i + 1]
  BY <1>2, <1>4, HeadTailProperties
<1>6. Data(Tail(s)) \in Seq(Order) /\ Len(Data(Tail(s))) = Len(s) - 1
      /\ \A i \in 1..Len(Tail(s)) : Data(Tail(s))[i] = pool_data[Tail(s)[i]]
  BY <1>1, DataOf
<1>7. \A i \in 1..Len(Data(Tail(s))) : Data(Tail(s))[i] = Tail(Data(s))[i]
  BY <1>1, <1>2, <1>3, <1>5, <1>6
<1>8. Data(Tail(s)) = Tail(Data(s))
  BY <1>5, <1>6, <1>7, SeqEqual
<1> QED
  BY <1>4, <1>8

(* A new order goes to the end of the queue; the slot it is put in is no   *)
(* other's, so no other pointer sees another order.                        *)
LEMMA AddOrderImplements ==
  ASSUME Inv, NEW o \in Order, AddOrder(o)
  PROVE  Fifo!Put(o) \/ Fifo!Refuse
<1> USE DEF Inv, TypeOK
<1>1. /\ m_orders \in Seq(DOMAIN pool_data) /\ Hand \in Seq(DOMAIN pool_data)
      /\ Len(m_orders) \in Nat /\ Len(Hand) \in Nat
      /\ Len(Data(m_orders)) = Len(m_orders) /\ Len(Data(Hand)) = Len(Hand)
  BY HandTyped, DataOf
<1>2. CASE pool_free = {} /\ outcome' = "full" /\ UNCHANGED <<queue_vars, consumer_vars>>
  <2>1. Len(m_orders) + Len(Hand) = Cardinality(Slot)
    BY <1>2, OutstandingCounted
  <2>2. Data(m_orders)' = Data(m_orders) /\ Data(Hand)' = Data(Hand)
    BY <1>2 DEF queue_vars, consumer_vars, Data, Hand
  <2> QED
    BY <1>1, <1>2, <2>1, <2>2 DEF Fifo!Refuse, Fifo!Outstanding
<1>3. ASSUME NEW s \in pool_free, Construct(s, o), m_orders' = Push(s),
             outcome' = "stored", UNCHANGED consumer_vars
      PROVE  Fifo!Put(o)
  <2>1. Len(m_orders) + Len(Hand) < Cardinality(Slot)
    BY OutstandingCounted
  <2>2. /\ s \notin Queued /\ s \notin Held /\ DOMAIN pool_data' = DOMAIN pool_data \cup {s}
        /\ pool_data'[s] = o /\ \A t \in DOMAIN pool_data \ {s} : pool_data'[t] = pool_data[t]
    BY <1>3 DEF Construct, SlotsAccounted
  <2>3. Hand' = Hand
    BY <1>3 DEF consumer_vars, Hand
  <2>4. \A i \in DOMAIN Hand : Hand[i] \in Held
    BY HandCases DEF Held
  <2>5. Data(Hand)' = Data(Hand)
    <3>1. \A i \in DOMAIN Hand : pool_data'[Hand[i]] = pool_data[Hand[i]]
      BY <1>1, <2>2, <2>4, ElementOfSeq, LenProperties
    <3> QED
      BY <2>3, <3>1 DEF Data
  <2>6. Inv' /\ m_orders \in Seq(DOMAIN pool_data') /\ s \in DOMAIN pool_data'
    BY AddOrderPreserves, <2>2, <1>1
  <2>7. Data(m_orders)' = Append(Data(m_orders), o)
    <3>1. Len(m_orders') = Len(m_orders) + 1 /\ m_orders'[Len(m_orders) + 1] = s
          /\ \A i \in 1..Len(m_orders) : m_orders'[i] = m_orders[i]
      BY <1>1, <1>3, <2>6, AppendProperties DEF Push
    <3>2. m_orders' \in Seq(DOMAIN pool_data') /\ DOMAIN m_orders' = 1..Len(m_orders')
          /\ DOMAIN m_orders = 1..Len(m_orders)
      BY <1>1, <2>6, LenProperties
    <3>3. Data(m_orders)' \in Seq(Order) /\ Len(Data(m_orders)') = Len(m_orders')
      BY <2>6, <3>2 DEF Data
    <3>4. \A i \in 1..Len(m_orders') : Data(m_orders)'[i] = pool_data'[m_orders'[i]]
      BY <3>2 DEF Data
    <3>5. \A i \in 1..Len(m_orders) : m_orders[i] \in DOMAIN pool_data \ {s}
      BY <1>1, <2>2, <3>2, ElementOfSeq DEF Queued
    <3>6. /\ Data(m_orders) \in Seq(Order)
          /\ \A i \in 1..Len(m_orders) : Data(m_orders)[i] = pool_data[m_orders[i]]
      BY <1>1, DataOf
    <3> DEFINE v == Append(Data(m_orders), o)
    <3>7. v \in Seq(Order) /\ Len(v) = Len(m_orders) + 1 /\ v[Len(m_orders) + 1] = o
          /\ \A i \in 1..Len(m_orders) : v[i] = Data(m_orders)[i]
      BY <1>1, <3>6, AppendProperties
    <3> HIDE DEF v
    <3>8. ASSUME NEW i \in 1..Len(m_orders') PROVE Data(m_orders)'[i] = v[i]
      <4>1. CASE i \in 1..Len(m_orders)
        BY <4>1, <2>2, <3>1, <3>4, <3>5, <3>6, <3>7
      <4>2. CASE i = Len(m_orders) + 1
        BY <4>2, <2>2, <3>1, <3>4, <3>7
      <4> QED
        BY <1>1, <3>1, <4>1, <4>2
    <3>9. Data(m_orders)' = v
      BY <3>1, <3>3, <3>7, <3>8, SeqEqual
    <3> QED
      BY <3>9 DEF v
  <2> QED
    BY <1>1, <1>3, <2>1, <2>5, <2>7 DEF Fifo!Put, Fifo!Outstanding
<1> QED
  BY <1>2, <1>3 DEF AddOrder

(* Taking the head moves it to the end of the consumer's hands.            *)
LEMMA GetOrderImplements ==
  ASSUME Inv, GetOrder
  PROVE  Fifo!Take \/ UNCHANGED <<Data(m_orders), Data(Hand), outcome>>
<1> USE DEF Inv, TypeOK
<1>1. incoming = NULL /\ UNCHANGED <<pool_data, order, outcome>>
  BY DEF GetOrder
<1>2. CASE m_orders = << >> /\ incoming' = NULL /\ UNCHANGED m_orders
  BY <1>1, <1>2 DEF Data, Hand
<1>3. CASE m_orders # << >> /\ incoming' = Head(m_orders) /\ m_orders' = Tail(m_orders)
  <2>1. Head(m_orders) \in DOMAIN pool_data /\ Head(m_orders) # NULL
    BY <1>3, HeadTailProperties, OrdersAssumption
  <2>2. Hand \in Seq(DOMAIN pool_data) /\ Hand' = Append(Hand, Head(m_orders))
    <3>1. Hand \in Seq(DOMAIN pool_data)
      BY HandTyped
    <3>2. CASE order = NULL
      <4>1. Hand = << >> /\ Hand' = <<Head(m_orders)>>
        BY <1>1, <1>3, <2>1, <3>2, ShortSequences DEF Hand
      <4> QED
        BY <3>1, <4>1, AppendIsConcat
    <3>3. CASE order # NULL
      <4>1. Hand = <<order>> /\ Hand' = <<order>> \o <<Head(m_orders)>>
        BY <1>1, <1>3, <2>1, <3>3, HandCases DEF Hand
      <4> QED
        BY <2>1, <3>1, <4>1, AppendIsConcat
    <3> QED
      BY <3>1, <3>2, <3>3
  <2>3. Data(Hand)' = Append(Data(Hand), pool_data[Head(m_orders)])
    <3>1. Data(Hand)' = Data(Append(Hand, Head(m_orders)))
      BY <1>1, <2>2 DEF Data
    <3> QED
      BY <2>1, <2>2, <3>1, DataOfAppend
  <2>4. Data(m_orders)' = Data(Tail(m_orders))
    BY <1>1, <1>3 DEF Data
  <2>5. Data(m_orders) # << >> /\ Head(Data(m_orders)) = pool_data[Head(m_orders)]
        /\ Data(Tail(m_orders)) = Tail(Data(m_orders))
    BY <1>3, DataOfTail
  <2> QED
    BY <1>1, <2>3, <2>4, <2>5 DEF Fifo!Take
<1> QED
  BY <1>2, <1>3 DEF GetOrder

(* The assignment lets go of the oldest order in hand, if there is one.    *)
LEMMA AssignImplements ==
  ASSUME Inv, Assign
  PROVE  Fifo!Drop \/ UNCHANGED <<Data(m_orders), Data(Hand), outcome>>
<1> USE DEF Inv, TypeOK
<1>1. order' = incoming /\ incoming' = NULL /\ UNCHANGED <<pool_data, m_orders, outcome>>
  BY DEF Assign
<1>2. Data(m_orders)' = Data(m_orders)
  BY <1>1 DEF Data
<1>3. Hand' = IF incoming = NULL THEN << >> ELSE <<incoming>>
  BY <1>1, ShortSequences DEF Hand
<1>4. CASE order = NULL
  <2>1. Hand' = Hand
    BY <1>3, <1>4, HandCases
  <2> QED
    BY <1>1, <1>2, <2>1 DEF Data
<1>5. CASE order # NULL
  <2>1. Hand # << >> /\ Hand' = Tail(Hand)
    <3>1. CASE incoming = NULL
      BY <1>3, <1>5, <3>1, HandCases, TailOfOne
    <3>2. CASE incoming # NULL
      BY <1>3, <1>5, <3>2, HandCases, TailOfTwo
    <3> QED
      BY <3>1, <3>2
  <2>2. Data(Hand)' = Data(Tail(Hand))
    BY <1>1, <2>1 DEF Data
  <2>3. Data(Hand) # << >> /\ Data(Tail(Hand)) = Tail(Data(Hand))
    BY <2>1, HandTyped, DataOfTail
  <2> QED
    BY <1>1, <1>2, <2>2, <2>3 DEF Fifo!Drop
<1> QED
  BY <1>4, <1>5

LEMMA ClearImplements ==
  ASSUME Inv, Clear
  PROVE  Fifo!Empty
<1>1. m_orders' = << >> /\ Hand' = Hand /\ UNCHANGED <<pool_data, outcome>>
  BY DEF Clear, consumer_vars, Hand
<1>2. Data(m_orders)' = << >> /\ Data(Hand)' = Data(Hand)
  BY <1>1, EmptySequence DEF Data
<1> QED
  BY <1>1, <1>2 DEF Fifo!Empty

(* Queue, pool and shared pointers are a first-in first-out queue that     *)
(* refuses an order exactly while as many are outstanding as the pool has  *)
(* slots: orders are neither lost, doubled, reordered nor overwritten by   *)
(* the reuse of a slot.                                                    *)
THEOREM Implementation == Spec => ImplementsFifo
<1>1. Init => Fifo!Init
  <2> SUFFICES ASSUME Init PROVE Fifo!Init
    OBVIOUS
  <2>1. m_orders = << >> /\ Hand = << >> /\ outcome = "none"
    BY HandCases DEF Init
  <2> QED
    BY <2>1, DataOfEmpty DEF Fifo!Init
<1>2. Inv /\ [Next]_vars => [Fifo!Next]_(Fifo!vars)
  <2> SUFFICES ASSUME Inv, [Next]_vars PROVE [Fifo!Next]_(Fifo!vars)
    OBVIOUS
  <2>1. CASE UNCHANGED vars
    BY <2>1 DEF vars, queue_vars, consumer_vars, Fifo!vars, Data, Hand
  <2>2. ASSUME NEW o \in Order, AddOrder(o) PROVE Fifo!Next
    BY <2>2, AddOrderImplements DEF Fifo!Next
  <2>3. CASE GetOrder
    BY <2>3, GetOrderImplements DEF Fifo!Next, Fifo!vars
  <2>4. CASE Assign
    BY <2>4, AssignImplements DEF Fifo!Next, Fifo!vars
  <2>5. CASE Clear
    BY <2>5, ClearImplements DEF Fifo!Next
  <2> QED
    BY <2>1, <2>2, <2>3, <2>4, <2>5 DEF Next
<1> QED
  BY <1>1, <1>2, Invariance, PTL DEF Spec, ImplementsFifo, Fifo!Spec
===============================================================================
