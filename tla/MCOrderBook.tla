----------------------------- MODULE MCOrderBook ------------------------------
(* Instance of OrderBookDisplay for TLC: asks that fall out of a window of   *)
(* one level and come back, one bid (bids run the same code in the other     *)
(* order), and orders that come late.                                        *)
EXTENDS OrderBookDisplay
===============================================================================
