-------------------------------- MODULE MCTob --------------------------------
(* Instances of Tob for TLC.  The exchange opens with every level in place,  *)
(* so that a snapshot has both sides and changes can take them away.         *)
EXTENDS Tob

MCOpening == [s \in {"BUY", "SELL"} |-> [q \in Price |-> 1]]
==============================================================================
