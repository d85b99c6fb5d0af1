------------------------------ MODULE OrderQueue ------------------------------
(***************************************************************************)
(* What Orders<N> promises its producer and its consumer: a queue that     *)
(* hands orders out in the order they came in, and refuses one exactly     *)
(* while N of them are waiting or still in the consumer's hands.           *)
(***************************************************************************)
EXTENDS Naturals, Sequences

CONSTANTS
  Order,  \* the orders
  N       \* NUMBER_OF_ORDERS

VARIABLES
  queue,   \* the orders that wait
  out,     \* the orders the consumer holds, oldest first
  outcome  \* of the last attempt to add an order

vars == <<queue, out, outcome>>

Init ==
  /\ queue = << >>
  /\ out = << >>
  /\ outcome = "none"

Outstanding == Len(queue) + Len(out)

Put(o) ==
  /\ Outstanding < N
  /\ queue' = Append(queue, o)
  /\ outcome' = "stored"
  /\ UNCHANGED out

Refuse ==
  /\ Outstanding = N
  /\ outcome' = "full"
  /\ UNCHANGED <<queue, out>>

Take ==
  /\ queue # << >>
  /\ queue' = Tail(queue)
  /\ out' = Append(out, Head(queue))
  /\ UNCHANGED outcome

Drop ==
  /\ out # << >>
  /\ out' = Tail(out)
  /\ UNCHANGED <<queue, outcome>>

Empty ==
  /\ queue' = << >>
  /\ UNCHANGED <<out, outcome>>

Next == (\E o \in Order : Put(o)) \/ Refuse \/ Take \/ Drop \/ Empty

Spec == Init /\ [][Next]_vars
===============================================================================
