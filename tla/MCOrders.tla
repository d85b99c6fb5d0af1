------------------------------- MODULE MCOrders -------------------------------
(* Instance of Orders for TLC: three slots, two orders that can be told      *)
(* apart, so that the pool runs full with a queue behind the order in hand.  *)
EXTENDS Orders, TLC

MCOrder == {[timestamp |-> 1], [timestamp |-> 2]}
===============================================================================
