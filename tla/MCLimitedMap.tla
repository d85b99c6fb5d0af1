----------------------------- MODULE MCLimitedMap -----------------------------
(* Instance of LimitedMap for TLC: the bids' comparator (std::greater). *)
EXTENDS LimitedMap

MCGreater(a, b) == a > b
===============================================================================
