--------------------------- MODULE MCSnapshotSocket ---------------------------
(* Instances of SnapshotSocket for TLC: bodies smaller than the buffer of     *)
(* three bytes, as large, and larger, behind headers that fit in it or not.   *)
EXTENDS SnapshotSocket
===============================================================================
