------------------------------ MODULE PriceBook ------------------------------
(***************************************************************************)
(* What the order book promises to the main loop: a table of amounts per   *)
(* side and price, zero meaning no level, that takes every order at least  *)
(* as recent as the last one it took.  Module OrderBook implements it with *)
(* two LimitedMaps; module Tob uses it in their place.                     *)
(***************************************************************************)
EXTENDS Naturals

CONSTANTS
  Price,      \* the prices of levels
  Amount,     \* the amounts of orders, zero among them
  Timestamp   \* the timestamps of orders

VARIABLES
  amount,          \* amount[side][price]
  last_timestamp,  \* of the last order taken
  crashed          \* the process has died

vars == <<amount, last_timestamp, crashed>>

Side == {"BUY", "SELL"}

Order == [type : Side, timestamp : Timestamp, price : Price, amount : Amount]

NoLevels == [s \in Side |-> [p \in Price |-> 0]]

Levels(s) == {p \in Price : amount[s][p] # 0}

(* Mutant: a book with one side only counts as empty. *)
NonEmptyBothSides == \A s \in Side : Levels(s) # {}

NonEmpty == \E s \in Side : Levels(s) # {}

Init ==
  /\ amount = NoLevels
  /\ last_timestamp = 0
  /\ crashed = FALSE

Take(o) ==
  /\ o.timestamp >= last_timestamp
  /\ amount' = [amount EXCEPT ![o.type][o.price] = o.amount]
  /\ last_timestamp' = o.timestamp

Ignore(o) ==
  /\ o.timestamp < last_timestamp
  /\ UNCHANGED <<amount, last_timestamp>>

Add(o) ==
  /\ ~ crashed
  /\ Take(o) \/ Ignore(o)
  /\ UNCHANGED crashed

(* Mutant: the loop over the bids, not the asks, needs a level. *)
PrintBookByBids ==
  /\ ~ crashed
  /\ crashed' = (Levels("BUY") = {})
  /\ UNCHANGED <<amount, last_timestamp>>

(* Printing needs a level to sell at. *)
PrintBook ==
  /\ ~ crashed
  /\ crashed' = (Levels("SELL") = {})
  /\ UNCHANGED <<amount, last_timestamp>>

Clear ==
  /\ ~ crashed
  /\ amount' = NoLevels
  /\ last_timestamp' = 0
  /\ UNCHANGED crashed

Next == (\E o \in Order : Add(o)) \/ PrintBook \/ Clear

Spec == Init /\ [][Next]_vars
==============================================================================
