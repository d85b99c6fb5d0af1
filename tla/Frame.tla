-------------------------------- MODULE Frame --------------------------------
(***************************************************************************)
(* Websocket frames (frame.cpp): what serialize() writes, and what         *)
(* deserialize() makes of the first bytes of a frame.                      *)
(*                                                                         *)
(* A frame on the wire is a record: its type, whether it is masked, the    *)
(* 7-bit length code, the value in its length field, and the number of     *)
(* bytes the sender put on the wire.  What is in the payload, and so what  *)
(* the mask does to it, is left out: the program masks nothing.            *)
(***************************************************************************)
EXTENDS Integers, Sequences

TEXT == 1
CLOSE == 8
PING == 9
PONG == 10

ShortMax == 125              \* 0x7D, the last length a code holds itself
Code16 == 126                \* 0x7E, a 16-bit length follows
Code64 == 127                \* 0x7F, a 64-bit length follows
WordMax == 65535             \* 0xFFFF, the last length 16 bits hold

KeySize(masked) == IF masked THEN 4 ELSE 0

(* Bytes of the extended length field after code c. *)
ExtSize(c) == IF c = Code16 THEN 2 ELSE IF c = Code64 THEN 8 ELSE 0

(* A frame of n payload bytes whose length is written with code c. *)
Written(type, masked, n, c) ==
  [type |-> type, masked |-> masked, code |-> c,
   length |-> IF c = Code16 THEN n % (WordMax + 1) ELSE n,
   payload |-> n,
   size |-> 2 + ExtSize(c) + KeySize(masked) + n]

(* The length form serialize() takes. *)
CodeOf(n) == IF n <= ShortMax THEN n ELSE IF n > WordMax THEN Code16 ELSE Code64

Serialize(type, masked, n) == Written(type, masked, n, CodeOf(n))

(* A frame of a conforming peer. *)
PeerFrame(type, n) ==
  Written(type, FALSE, n, IF n <= ShortMax THEN n ELSE IF n <= WordMax THEN Code16 ELSE Code64)

(* The header up to the mask key is in the first avail bytes, and at least *)
(* one byte more.                                                          *)
HeaderIsHere(f, avail) == avail > 2 /\ avail > 2 + ExtSize(f.code)

(* Mutant: the mask key is not counted. *)
EndOfForgettingKey(f) == 2 + ExtSize(f.code) + f.length

(* Where deserialize() sees the end of the frame; lengths are below 2^63, *)
(* so the sum does not wrap.                                              *)
EndOf(f) == 2 + ExtSize(f.code) + KeySize(f.masked) + f.length

(* Mutant: every frame waits for a byte of the next. *)
DeserializeLate(f, avail) == IF avail > EndOf(f) THEN EndOf(f) ELSE 0

(* deserialize() of the first avail bytes of frame f and what follows it:  *)
(* the end of the frame, or 0 for incomplete (it returns data itself).     *)
Deserialize(f, avail) ==
  IF HeaderIsHere(f, avail) /\ EndOf(f) <= avail THEN EndOf(f) ELSE 0

===============================================================================
