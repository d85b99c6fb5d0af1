----------------------------- MODULE FrameReader -----------------------------
(***************************************************************************)
(* A receiver that calls deserialize() each time bytes have come in, on a  *)
(* frame that serialize() or a conforming peer has written.                *)
(***************************************************************************)
EXTENDS Frame

CONSTANT Lengths       \* payload lengths to try

VARIABLES
  frame,               \* the frame under way
  avail,               \* how many of its bytes, and of those after it, are here
  end                  \* what deserialize() last returned, 0 for incomplete

vars == <<frame, avail, end>>

OwnFrames == {Serialize(TEXT, m, n) : m \in BOOLEAN, n \in Lengths}
PeerFrames == {PeerFrame(t, n) : t \in {TEXT, PING}, n \in Lengths}

(* Where deserialize() changes its mind: in the header, and at the end. *)
Boundaries == (1 .. 15) \cup ((frame.size - 1) .. (frame.size + 1))

(* A field of 16 bits cannot hold the length of the frame. *)
Oversized(f) == f.code = Code16 /\ f.length # f.payload

Init ==
  /\ frame \in OwnFrames \cup PeerFrames
  /\ avail = 0 /\ end = 0

(* Bytes come in; the caller tries again on all it has. *)
Read ==
  /\ end = 0
  /\ \E k \in {b \in Boundaries : b > avail} :
       /\ avail' = k
       /\ end' = Deserialize(frame, k)
  /\ UNCHANGED frame

(* What follows the frame is moved to the front and looked at.  A reader   *)
(* that is out of step does not go on.                                     *)
Shift ==
  /\ end # 0 /\ ~ Oversized(frame)
  /\ frame' \in OwnFrames \cup PeerFrames
  /\ avail' = avail - end
  /\ end' = Deserialize(frame', avail')

Next == Read \/ Shift

Spec == Init /\ [][Next]_vars

(* deserialize() never ends a frame anywhere but where the sender ended it, *)
(* however its bytes are cut into reads; only frames of more than 64K bytes *)
(* that serialize() itself wrote are misread, because it takes the 16-bit   *)
(* length form for those (frame.cpp:26).                                    *)
EndsWhereSent == end # 0 => end = frame.size \/ Oversized(frame)

(* When the whole frame is here deserialize() says so, but for one case: a  *)
(* frame without payload and mask waits for the first byte of the next one  *)
(* (frame.cpp:101), which a receiver that reads frame by frame may never    *)
(* see.                                                                     *)
LateOnlyIfEmpty ==
  avail >= frame.size /\ end = 0 => frame.size = 2 /\ avail = 2
===============================================================================
