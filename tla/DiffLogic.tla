------------------------------ MODULE DiffLogic ------------------------------
(***************************************************************************)
(* The callbacks of the diff socket (DiffLogic): the websocket handshake,  *)
(* the read buffer from which frames are taken, and the output queue.      *)
(*                                                                         *)
(* The server's stream is its response to the handshake followed by the    *)
(* frames it sends; m_buffer holds the m_offset bytes of that stream that  *)
(* come after the first `base` of them.  The callbacks of one socket never *)
(* overlap; bytes arrive, and main() takes orders, between any two steps.  *)
(***************************************************************************)
EXTENDS Integers, Sequences, FiniteSets, FiniteSetsExt, Functions

CONSTANTS
  BUFFER_SIZE,
  RequestSize, ResponseSize, SubscribeSize,   \* in bytes
  Payload,       \* payload length of a frame by its kind
  Kinds,         \* the kinds of frames the server sends
  Levels,        \* how many levels an "order" frame carries
  N,             \* slots of Orders
  MaxFrames,     \* how many frames the server sends (bounds the model)
  ShortWrites    \* whether the request may be written in part

VARIABLES
  sent,          \* the frames the server has sent: kind, and end in its stream
  responded,     \* whether it has answered the handshake
  arrived,       \* bytes of its stream that have reached the client's host
  m_state, base, m_offset,
  m_output_queue,
  generated,     \* how many frames generate_frame() has queued in all
  written,       \* bytes put on the socket: <<frame, position>>, frame 0 the request
  stored,        \* levels handed to Orders: <<frame, level>>
  free,          \* slots of Orders that are free
  reading,       \* the loop of on_read() is under way
  socket,        \* "open", "closed" (by an exception) or "aborted" (the process)
  dropped,       \* bytes thrown away with the handshake response
  excess         \* frames that ended in a read in which another ended first

server_vars == <<sent, responded, arrived>>
in_vars == <<m_state, base, m_offset, reading, socket, dropped, excess>>
out_vars == <<m_output_queue, generated, written>>
order_vars == <<stored, free>>
vars == <<server_vars, in_vars, out_vars, order_vars>>

F == INSTANCE Frame

ASSUME DiffAssumption ==
  /\ {BUFFER_SIZE, RequestSize, ResponseSize, SubscribeSize, Levels, N} \subseteq Nat \ {0}
  /\ BUFFER_SIZE > 2
  /\ Kinds \subseteq {"order", "notice", "ping", "junk", "object", "nodata"}
  /\ Payload \in [Kinds -> Nat]
  /\ "ping" \in Kinds => Payload["ping"] = 0
  /\ \A k \in Kinds \ {"ping"} : Payload[k] > 0
  /\ ShortWrites \in BOOLEAN

-------------------------------------------------------------------------------
(* The server's stream. *)

FrameOf(k) == F!PeerFrame(IF k = "ping" THEN F!PING ELSE F!TEXT, Payload[k])

(* The bytes of the stream up to the end of frame i; the response is 0. *)
EndAt(i) == IF i = 0 THEN ResponseSize ELSE sent[i].end

Frames == DOMAIN sent

StreamSize == IF responded THEN EndAt(Len(sent)) ELSE 0

InStep == \E i \in 0 .. Len(sent) : base = EndAt(i)

-------------------------------------------------------------------------------
Init ==
  /\ sent = << >> /\ responded = FALSE /\ arrived = 0
  /\ m_state = "HANDSHAKE" /\ base = 0 /\ m_offset = 0
  /\ m_output_queue = << >> /\ generated = 0 /\ written = << >>
  /\ stored = << >> /\ free = N
  /\ reading = FALSE /\ socket = "open" /\ dropped = 0 /\ excess = 0

-------------------------------------------------------------------------------
(* The server, the network, and main(). *)

Respond ==
  /\ ~ responded /\ Len(written) >= RequestSize
  /\ responded' = TRUE
  /\ UNCHANGED <<sent, arrived, in_vars, out_vars, order_vars>>

Send(k) ==
  /\ responded /\ Len(sent) < MaxFrames
  /\ sent' = Append(sent, [kind |-> k, end |-> EndAt(Len(sent)) + FrameOf(k).size])
  /\ UNCHANGED <<responded, arrived, in_vars, out_vars, order_vars>>

Arrive ==
  /\ arrived' \in arrived + 1 .. StreamSize
  /\ UNCHANGED <<sent, responded, in_vars, out_vars, order_vars>>

(* while (order = orders.get_order()) *)
TakeOrders ==
  /\ ~ reading /\ free < N
  /\ free' = N
  /\ UNCHANGED <<server_vars, in_vars, out_vars, stored>>

-------------------------------------------------------------------------------
(* on_read() *)

StartRead ==
  /\ socket = "open" /\ ~ reading /\ arrived > base + m_offset
  /\ reading' = TRUE
  /\ UNCHANGED <<server_vars, m_state, base, m_offset, socket, dropped, excess,
                 out_vars, order_vars>>

(* What socket->read() returns. *)
ReadSize == Min({arrived - (base + m_offset), BUFFER_SIZE - m_offset})

(* m_offset after the read. *)
Got == m_offset + ReadSize

EndRead ==
  /\ reading /\ ReadSize = 0
  /\ reading' = FALSE
  /\ UNCHANGED <<server_vars, m_state, base, m_offset, socket, dropped, excess,
                 out_vars, order_vars>>

(* The output queue after generate_frame(). *)
Generated(size) == Append(m_output_queue, [id |-> generated + 1, size |-> size, offset |-> 0])

Generate(size) ==
  /\ m_output_queue' = Generated(size)
  /\ generated' = generated + 1
  /\ UNCHANGED written

(* How many frames end in the bytes just read, the first not counted. *)
Excess ==
  LET ends == {i \in Frames : EndAt(i) > base + m_offset /\ EndAt(i) <= base + Got}
  IN  IF ends = {} THEN 0 ELSE Cardinality(ends) - 1

ReadResponseInPieces ==
  /\ reading /\ m_state = "HANDSHAKE_RESPONSE" /\ ReadSize > 0
  /\ Got < ResponseSize
  /\ m_offset' = Got
  /\ UNCHANGED <<server_vars, m_state, base, reading, socket, dropped, excess,
                 out_vars, order_vars>>

(* The response is complete.  m_offset = 0 forgets what came with it, and  *)
(* deserialize() of nothing returns at once.                               *)
ReadResponse ==
  /\ reading /\ m_state = "HANDSHAKE_RESPONSE" /\ ReadSize > 0
  /\ Got >= ResponseSize
  /\ m_state' = "IN_WORK"
  /\ base' = base + Got
  /\ dropped' = Got - ResponseSize
  /\ m_offset' = 0
  /\ Generate(2 + SubscribeSize)
  /\ UNCHANGED <<server_vars, reading, socket, excess, order_vars>>

Working ==
  /\ reading /\ m_state = "IN_WORK" /\ ReadSize > 0
  /\ excess' = excess + Excess
  /\ UNCHANGED <<server_vars, m_state, dropped>>

(* What deserialize() returns when the frame in front is frame i. *)
FrameEnd(i) == F!Deserialize(FrameOf(sent[i].kind), Got)

InFront(i) == EndAt(i - 1) = base

(* Mutant: what follows the frame is not moved to the front. *)
ShiftToEmpty(end) == base' = base + Got /\ m_offset' = 0

(* Mutant: a message that is skipped stays in the buffer. *)
ShiftNothing(end) == UNCHANGED base /\ m_offset' = Got

(* The first `end` bytes of the buffer are done with. *)
Shift(end) == base' = base + end /\ m_offset' = Got - end

NoFrameYet ==
  /\ Working
  /\ \E i \in Frames : InFront(i) /\ FrameEnd(i) = 0
  /\ m_offset' = Got
  /\ UNCHANGED <<base, reading, socket, out_vars, order_vars>>

(* Frame i is complete: it is handled, and no second one is looked for. *)
Takes(i) == Working /\ InFront(i) /\ FrameEnd(i) # 0

(* The payload of a PING is no JSON either, so it is dropped like junk. *)
TakePing ==
  \E i \in Frames :
    /\ Takes(i) /\ sent[i].kind = "ping"
    /\ Generate(2)
    /\ Shift(FrameEnd(i))
    /\ UNCHANGED <<reading, socket, order_vars>>

(* Invalid JSON, or a message without a timestamp. *)
TakeNothing ==
  \E i \in Frames :
    /\ Takes(i) /\ sent[i].kind \in {"junk", "notice"}
    /\ Shift(FrameEnd(i))
    /\ UNCHANGED <<reading, socket, out_vars, order_vars>>

(* STORE_ORDER for the first n levels.                                     *)
StoreLevels(i, n) ==
  /\ stored' = stored \o [l \in 1 .. n |-> <<i, l>>]
  /\ free' = free - n

(* add_order() throws when the pool is empty, and std::stod at a level (or  *)
(* std::stoll at a timestamp) that is no number: the levels before it stay. *)
TakeOrder ==
  \E i \in Frames :
    /\ Takes(i) /\ sent[i].kind = "order"
    /\ \/ /\ free >= Levels /\ StoreLevels(i, Levels)
          /\ Shift(FrameEnd(i)) /\ UNCHANGED <<reading, socket>>
       \/ /\ \E n \in 0 .. Levels - 1 : n <= free /\ StoreLevels(i, n)
          /\ socket' = "closed" /\ reading' = FALSE
          /\ UNCHANGED base /\ m_offset' = Got
    /\ UNCHANGED out_vars

(* asString() throws when "data" is no string; assert() when it is missing. *)
TakeBad ==
  \E i \in Frames :
    /\ Takes(i) /\ sent[i].kind \in {"object", "nodata"}
    /\ socket' = IF sent[i].kind = "object" THEN "closed" ELSE "aborted"
    /\ reading' = FALSE /\ m_offset' = Got
    /\ UNCHANGED <<base, out_vars, order_vars>>

(* Out of step, some byte in the middle of a frame is read as a header: it *)
(* may promise any length and any type, and no JSON comes of it.           *)
TakeGarbage ==
  /\ Working /\ ~ InStep
  /\ \/ m_offset' = Got /\ UNCHANGED <<base, out_vars>>
     \/ \E end \in 2 .. Got : Shift(end) /\ (Generate(2) \/ UNCHANGED out_vars)
  /\ UNCHANGED <<reading, socket, order_vars>>

-------------------------------------------------------------------------------
(* on_write() *)

Bytes(id, from, n) == [i \in 1 .. n |-> <<id, from + i>>]

(* write_handshake(): what socket->write() returns is not looked at. *)
WriteHandshake ==
  /\ socket = "open" /\ ~ reading /\ m_state = "HANDSHAKE"
  /\ \E n \in IF ShortWrites THEN 0 .. RequestSize ELSE {RequestSize} :
       written' = Bytes(0, 0, n)
  /\ m_state' = "HANDSHAKE_RESPONSE"
  /\ UNCHANGED <<server_vars, base, m_offset, reading, socket, dropped, excess,
                 m_output_queue, generated, order_vars>>

(* Mutant: the next write of a frame starts at its first byte again. *)
WriteFrameAgain ==
  /\ socket = "open" /\ ~ reading /\ m_output_queue # << >>
  /\ LET f == Head(m_output_queue)
     IN  \E n \in 1 .. f.size - f.offset :
           /\ written' = written \o Bytes(f.id, 0, n)
           /\ m_output_queue' =
                IF f.offset + n = f.size THEN Tail(m_output_queue)
                ELSE <<[f EXCEPT !.offset = @ + n]>> \o Tail(m_output_queue)
  /\ UNCHANGED <<server_vars, in_vars, generated, order_vars>>

(* One turn of its loop, which may end after any of them. *)
WriteFrame ==
  /\ socket = "open" /\ ~ reading /\ m_output_queue # << >>
  /\ LET f == Head(m_output_queue)
     IN  \E n \in 1 .. f.size - f.offset :
           /\ written' = written \o Bytes(f.id, f.offset, n)
           /\ m_output_queue' =
                IF f.offset + n = f.size THEN Tail(m_output_queue)
                ELSE <<[f EXCEPT !.offset = @ + n]>> \o Tail(m_output_queue)
  /\ UNCHANGED <<server_vars, in_vars, generated, order_vars>>

-------------------------------------------------------------------------------
OnRead ==
  \/ StartRead
  \/ ReadResponseInPieces
  \/ ReadResponse
  \/ NoFrameYet
  \/ TakePing
  \/ TakeNothing
  \/ TakeOrder
  \/ TakeBad
  \/ TakeGarbage
  \/ EndRead

OnWrite ==
  \/ WriteHandshake
  \/ WriteFrame

Next ==
  \/ Respond
  \/ \E k \in Kinds : Send(k)
  \/ Arrive
  \/ TakeOrders
  \/ OnRead
  \/ OnWrite

Spec == Init /\ [][Next]_vars

-------------------------------------------------------------------------------
(* Properties. *)

(* The handshake response was cut off at the end of a frame. *)
CutClean == \E i \in 0 .. Len(sent) : ResponseSize + dropped = EndAt(i)

(* The frames between the response and the position base, but for those    *)
(* dropped with the response.                                              *)
Handled == {i \in Frames : EndAt(i - 1) >= ResponseSize + dropped /\ EndAt(i) <= base}

LevelsOf(S) == {i \in S : sent[i].kind = "order"} \X (1 .. Levels)

Before(a, b) == a[1] < b[1] \/ (a[1] = b[1] /\ a[2] < b[2])

(* The stored levels are those of the handled frames, in the order of the  *)
(* stream, and after an exception a first part of the next frame's.        *)
StoredInTurn ==
  /\ \A j \in 2 .. Len(stored) : Before(stored[j - 1], stored[j])
  /\ IF socket = "open" THEN Range(stored) = LevelsOf(Handled)
     ELSE \E i \in Frames, m \in 0 .. Levels - 1 :
            InFront(i) /\ Range(stored) = LevelsOf(Handled) \cup ({i} \X (1 .. m))

PingsAnswered == generated = 1 + Cardinality({i \in Handled : sent[i].kind = "ping"})

(* As long as the bytes dropped with the handshake response were whole     *)
(* frames, every frame since is handled once and in turn, whatever reads   *)
(* its bytes came in.                                                      *)
FramesInTurn == m_state = "IN_WORK" /\ CutClean => InStep /\ StoredInTurn /\ PingsAnswered

(* The frames of which every byte is in the buffer. *)
Backlog == {i \in Frames : EndAt(i - 1) >= base /\ EndAt(i) <= base + m_offset}

Pings == {i \in Frames : sent[i].kind = "ping"}

(* on_read() takes one frame per read, so a frame that ends in the same    *)
(* read as another stays behind for good, and an empty one that is not     *)
(* followed by anything too; but nothing else makes it fall behind.        *)
BacklogIsExcess ==
  m_state = "IN_WORK" /\ CutClean /\ socket = "open" =>
    Cardinality(Backlog) <= excess + Cardinality(Pings)

(* on_read() never runs out of room: whenever the buffer is full a frame   *)
(* is complete and goes, unless the stream is out of step or holds a frame *)
(* larger than the buffer.  (With no room, read() of no bytes ends the     *)
(* loop, and nothing is ever read again.)                                  *)
RoomForMore ==
  m_state = "IN_WORK" /\ CutClean /\ socket = "open" =>
    m_offset < BUFFER_SIZE \/ \E i \in Frames : FrameOf(sent[i].kind).size > BUFFER_SIZE

SizeOfOutput(id) == IF id = 1 THEN 2 + SubscribeSize ELSE 2

(* What the queued frames before frame id take on the wire. *)
StartOf(id) == IF id = 1 THEN 0 ELSE 2 + SubscribeSize + 2 * (id - 2)

(* What goes out is the request, as far as it was written, and then the    *)
(* queued frames, each whole and in the order in which they were queued,   *)
(* however the writes are cut.                                             *)
OutputInTurn ==
  \E r \in 0 .. RequestSize : \A j \in DOMAIN written :
    \/ j <= r /\ written[j] = <<0, j>>
    \/ \E id \in 1 .. generated : \E p \in 1 .. SizeOfOutput(id) :
         j = r + StartOf(id) + p /\ written[j] = <<id, p>>

===============================================================================
