-------------------------------- MODULE Orders --------------------------------
(***************************************************************************)
(* Orders<N> (orders.hpp, orders.tpp): a std::queue of shared pointers to  *)
(* orders that live in the N slots of a Pool.  The diff logic adds, the    *)
(* main loop takes:                                                        *)
(*     while (order = orders.get_order()) order_book.add( *order);         *)
(* Each member function holds m_lock throughout and is one step; the       *)
(* assignment to the consumer's pointer, which lets go of the order it     *)
(* held before, happens outside the lock and is a step of its own.         *)
(***************************************************************************)
EXTENDS Naturals, Sequences, FiniteSets

CONSTANTS
  Order,  \* the orders: records with a timestamp
  Slot,   \* the slots of the pool, NUMBER_OF_ORDERS of them
  NULL    \* the null pointer

ASSUME OrdersAssumption ==
  /\ IsFiniteSet(Slot) /\ Slot # {} /\ NULL \notin Slot
  /\ \A o \in Order : o.timestamp \in Nat

VARIABLES
  pool_free,  \* the slots no shared pointer refers to
  pool_data,  \* pool_data[s]: the order last constructed in slot s
  m_orders,   \* the queue of pointers
  order,      \* the consumer's pointer
  incoming,   \* what get_order() has returned and is not assigned yet
  fetching,   \* whether the consumer is between the call and the assignment
  outcome     \* how the last add_order() ended

queue_vars == <<pool_free, pool_data, m_orders>>
consumer_vars == <<order, incoming, fetching>>
vars == <<queue_vars, consumer_vars, outcome>>

Init ==
  /\ pool_free = Slot
  /\ pool_data = << >>
  /\ m_orders = << >>
  /\ order = NULL
  /\ incoming = NULL
  /\ fetching = FALSE
  /\ outcome = "none"

-------------------------------------------------------------------------------
(* Pool<Order, N>, as add_order() uses it: get_shared() constructs an      *)
(* order in a free slot, or returns null; the slot is free again once the  *)
(* last pointer to it is gone.                                             *)

Construct(s, o) ==
  /\ pool_free' = pool_free \ {s}
  /\ pool_data' = [t \in DOMAIN pool_data \cup {s} |-> IF t = s THEN o ELSE pool_data[t]]

(* Mutant: the slot of an order is given back when it is handed out.       *)
FreedByAssigningEarly == {incoming} \ {NULL}

(* Mutant: letting go of a null pointer gives back a slot like any other.  *)
FreedByAssigningNull == {order}

(* The slots that order = ... gives back. *)
FreedByAssigning == {order} \ {NULL}

-------------------------------------------------------------------------------
(* Operations. *)

(* Mutant: the new pointer overtakes the queue. *)
PushFront(s) == <<s>> \o m_orders

Push(s) == Append(m_orders, s)

AddOrder(o) ==
  \/ \E s \in pool_free :
       /\ Construct(s, o)
       /\ m_orders' = Push(s)
       /\ outcome' = "stored"
       /\ UNCHANGED consumer_vars
  \/ /\ pool_free = {}
     /\ outcome' = "full"           \* throws "order queue is full"
     /\ UNCHANGED <<queue_vars, consumer_vars>>

GetOrder ==
  /\ ~ fetching
  /\ fetching' = TRUE
  /\ \/ /\ m_orders = << >>
        /\ incoming' = NULL
        /\ UNCHANGED m_orders
     \/ /\ m_orders # << >>
        /\ incoming' = Head(m_orders)
        /\ m_orders' = Tail(m_orders)
  /\ UNCHANGED <<pool_free, pool_data, order, outcome>>

Assign ==
  /\ fetching
  /\ fetching' = FALSE
  /\ order' = incoming
  /\ incoming' = NULL
  /\ pool_free' = pool_free \cup FreedByAssigning
  /\ UNCHANGED <<pool_data, m_orders, outcome>>

(* The slots of the queued orders. *)
Queued == {m_orders[i] : i \in DOMAIN m_orders}

Clear ==
  /\ m_orders' = << >>
  /\ pool_free' = pool_free \cup Queued
  /\ UNCHANGED <<pool_data, consumer_vars, outcome>>

Next == (\E o \in Order : AddOrder(o)) \/ GetOrder \/ Assign \/ Clear

Spec == Init /\ [][Next]_vars

-------------------------------------------------------------------------------
(* Properties. *)

(* The slots the consumer's pointers refer to. *)
Held == ({order} \cup {incoming}) \ {NULL}

TypeOK ==
  /\ pool_free \subseteq Slot
  /\ DOMAIN pool_data \subseteq Slot /\ pool_data \in [DOMAIN pool_data -> Order]
  /\ m_orders \in Seq(DOMAIN pool_data)
  /\ order \in DOMAIN pool_data \cup {NULL}
  /\ incoming \in DOMAIN pool_data \cup {NULL}
  /\ fetching \in BOOLEAN /\ (incoming # NULL => fetching)
  /\ outcome \in {"none", "stored", "full"}

(* Every slot is in exactly one place: free, in the queue once, or held.   *)
(* A slot is never handed out twice and none is lost, whatever mix of      *)
(* adding, taking and clearing came before.                                *)
SlotsAccounted ==
  /\ \A i, j \in DOMAIN m_orders : i # j => m_orders[i] # m_orders[j]
  /\ order # NULL => order # incoming
  /\ Queued \cap Held = {}
  /\ pool_free = Slot \ (Queued \cup Held)

(* The consumer's pointers, oldest first. *)
Hand == (IF order = NULL THEN << >> ELSE <<order>>)
          \o (IF incoming = NULL THEN << >> ELSE <<incoming>>)

Data(s) == [i \in DOMAIN s |-> pool_data[s[i]]]

Fifo == INSTANCE OrderQueue WITH
  N     <- Cardinality(Slot),
  queue <- Data(m_orders),
  out   <- Data(Hand)

(* Queue, pool and shared pointers behave as one first-in first-out queue  *)
(* that refuses an order exactly while N are outstanding.                  *)
ImplementsFifo == Fifo!Spec
===============================================================================
