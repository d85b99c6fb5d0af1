----------------------------- MODULE MCDiffLogic -----------------------------
(* Instances of DiffLogic and FrameReader for TLC, side by side: either the  *)
(* socket with frames of two to four bytes in a buffer that holds a little   *)
(* more than two of them, or single frames whose payloads lie on both sides  *)
(* of every boundary of the length forms.                                    *)
EXTENDS DiffLogic

CONSTANT Lengths       \* payload lengths of the single frames

VARIABLES part, frame, avail, frame_end

ASSUME LengthsAssumption == Lengths \subseteq Nat

Reader == INSTANCE FrameReader WITH end <- frame_end

MCPayload == [k \in Kinds |-> CASE k = "ping" -> 0 [] k = "order" -> 2 [] OTHER -> 1]

MCInit ==
  /\ Init
  /\ \/ part = "socket" /\ frame = "none" /\ avail = 0 /\ frame_end = 0
     \/ part = "frame" /\ Reader!Init

MCNext ==
  \/ part = "socket" /\ Next /\ UNCHANGED <<part, frame, avail, frame_end>>
  \/ part = "frame" /\ Reader!Next /\ UNCHANGED <<part, vars>>

MCSpec == MCInit /\ [][MCNext]_<<part, vars, frame, avail, frame_end>>

(* deserialize() ends every frame where its sender ended it, and reports no *)
(* whole frame as incomplete, but for the two kinds FrameReader names.      *)
FramesEndWhereSent == part = "frame" => Reader!EndsWhereSent /\ Reader!LateOnlyIfEmpty
===============================================================================
