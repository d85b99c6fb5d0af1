------------------------------ MODULE TopLevels ------------------------------
(***************************************************************************)
(* What one side of the order book promises its user: a table of price     *)
(* levels, and a window on the Depth best of them.  Nothing here says how  *)
(* the window is kept; every step recomputes it from the table.  Module    *)
(* LimitedMap implements this specification with an iterator it moves by   *)
(* one position at a time.                                                 *)
(***************************************************************************)
EXTENDS Naturals, FiniteSets

CONSTANTS
  Key,              \* the prices a level may have
  Value,            \* the amounts a level may hold
  Depth,            \* how many levels the window shows
  Comparator(_, _)  \* Comparator(a, b): price a is better than price b

VARIABLES
  levels,           \* the table: a function from the present prices
  window            \* the prices its reader sees

vars == <<levels, window>>

(* The prices of K that fewer than Depth prices of K are better than. *)
Best(K) == {k \in K : Cardinality({j \in K : Comparator(j, k)}) < Depth}

With(f, k, v) == [j \in DOMAIN f \cup {k} |-> IF j = k THEN v ELSE f[j]]
Without(f, k) == [j \in DOMAIN f \ {k} |-> f[j]]

Init ==
  /\ levels = << >>
  /\ window = {}

Set(k, v) ==
  /\ levels' = With(levels, k, v)
  /\ window' = Best(DOMAIN levels')

Remove(k) ==
  /\ levels' = Without(levels, k)
  /\ window' = Best(DOMAIN levels')

RemoveAll ==
  /\ levels' = << >>
  /\ window' = {}

Next ==
  \/ \E k \in Key, v \in Value : Set(k, v)
  \/ \E k \in Key : Remove(k)
  \/ RemoveAll

Spec == Init /\ [][Next]_vars
==============================================================================
