--------------------------- MODULE SnapshotSocket ---------------------------
(***************************************************************************)
(* The callbacks of the order book socket (ReceiveOrderBookLogic): the TLS *)
(* handshake, the request, the header and body of the answer in m_buffer,  *)
(* and process_json() on the body.                                         *)
(*                                                                         *)
(* OpenSSL, the socket and the poller are external.  The server's bytes    *)
(* come in TLS records; SSL_read() takes a record off the socket when it   *)
(* has none, and hands out as much of it as asked for.  The bytes of the   *)
(* answer have no value here: where they are is told by how many of them   *)
(* have come how far.                                                      *)
(***************************************************************************)
EXTENDS Integers, FiniteSetsExt

CONSTANTS
  JSON_BUF_INIT_VALUE,
  HeaderSizes, BodySizes,   \* what the answer may measure, in bytes
  RecordSizes,              \* how many bytes a TLS record may carry at most
  Flights,                  \* messages of the server the TLS handshake needs
  Levels,                   \* levels of the order book in the body
  Pollers,                  \* "edge" reports changes only, "level" conditions
  Faults                    \* of the server and the network, see below

VARIABLES
  answer,                   \* the server's, and the poller that reports it (fixed)
  (* The connection. *)
  flights,                  \* handshake messages arrived, and those taken
  arrived,                  \* bytes of the answer the socket has received,
  taken,                    \* those SSL_read() took off it, by whole records,
  given,                    \* and those it handed out
  full,                     \* the socket takes no more output for now
  edge,                     \* a change the poller has not reported
  (* ReceiveOrderBookLogic. *)
  m_ssl, m_ssl_connected, m_wait_for_read,
  requested,                \* m_write_offset has reached the end
  size,                     \* m_buffer.size()
  m_read_offset, m_json_full_size, m_ready_to_receive_json,
  buffer_size,              \* the local of on_read()
  pc,                       \* "poll", or the callback under way
  events,                   \* what the poller reported and is not handled
  stored,                   \* levels added to the order book
  processed,                \* how often process_json() has run
  socket                    \* "open", "closed" or "aborted"

net_vars == <<arrived, taken, given, full>>
ssl_vars == <<m_ssl, m_ssl_connected, m_wait_for_read, requested, flights>>
buf_vars == <<size, m_read_offset, m_json_full_size, m_ready_to_receive_json>>
out_vars == <<stored, processed, socket>>
vars == <<answer, net_vars, edge, ssl_vars, buf_vars, buffer_size, pc, events, out_vars>>

AllFaults == {"no_length", "zero_length", "no_json", "no_timestamp", "bad_level",
              "no_tls", "shutdown", "full"}

ASSUME SnapshotAssumption ==
  /\ JSON_BUF_INIT_VALUE \in Nat \ {0} /\ RecordSizes \subseteq Nat \ {0}
  /\ HeaderSizes \subseteq Nat \ {0} /\ BodySizes \subseteq Nat \ {0}
  /\ Flights \in Nat /\ Levels \in Nat \ {0}
  /\ Pollers \subseteq {"edge", "level"} /\ Faults \subseteq AllFaults

-------------------------------------------------------------------------------
Total == answer.header + answer.body

(* Every record is full but the last one: where one that begins at n ends. *)
RecordEnd(n) == Min({n + answer.record, Total})

(* Where the last record begins. *)
LastRecord == answer.record * ((Total - 1) \div answer.record)

Answers ==
  [header : HeaderSizes, body : BodySizes, record : RecordSizes, poller : Pollers,
   flaw : {"none"} \cup (Faults \cap {"no_length", "zero_length", "no_json", "no_timestamp", "bad_level"})]

Init ==
  /\ answer \in Answers
  /\ flights = [arrived |-> 0, taken |-> 0]
  /\ arrived = 0 /\ taken = 0 /\ given = 0 /\ full = FALSE /\ edge = TRUE
  /\ m_ssl = FALSE /\ m_ssl_connected = FALSE /\ m_wait_for_read = FALSE /\ requested = FALSE
  /\ size = JSON_BUF_INIT_VALUE /\ m_read_offset = 0 /\ m_json_full_size = 0
  /\ m_ready_to_receive_json = FALSE
  /\ buffer_size = 0 /\ pc = "poll" /\ events = {}
  /\ stored = 0 /\ processed = 0 /\ socket = "open"

-------------------------------------------------------------------------------
(* The server and the network. *)

FlightArrives ==
  /\ m_ssl /\ socket = "open" /\ flights.arrived < Flights
  /\ flights' = [flights EXCEPT !.arrived = @ + 1]
  /\ edge' = TRUE
  /\ UNCHANGED <<answer, net_vars, m_ssl, m_ssl_connected, m_wait_for_read, requested,
                 buf_vars, buffer_size, pc, events, out_vars>>

RecordArrives ==
  /\ requested /\ arrived < Total /\ socket = "open"
  /\ arrived' = RecordEnd(arrived)
  /\ edge' = TRUE
  /\ UNCHANGED <<answer, taken, given, full, ssl_vars, buf_vars, buffer_size, pc, events, out_vars>>

(* The output buffer of the socket fills up before the request is written, *)
(* and drains again.                                                       *)
Fill ==
  /\ "full" \in Faults /\ ~ full /\ ~ requested
  /\ full' = TRUE
  /\ UNCHANGED <<answer, arrived, taken, given, edge, ssl_vars, buf_vars, buffer_size, pc,
                 events, out_vars>>

DrainOutput ==
  /\ full
  /\ full' = FALSE /\ edge' = TRUE
  /\ UNCHANGED <<answer, arrived, taken, given, ssl_vars, buf_vars, buffer_size, pc, events,
                 out_vars>>

-------------------------------------------------------------------------------
(* The poller and main(): READ before WRITE. *)

Readable == taken < arrived \/ flights.arrived > flights.taken

Reported ==
  IF answer.poller = "edge" /\ ~ edge THEN {}
  ELSE {e \in {"READ", "WRITE"} : IF e = "READ" THEN Readable ELSE ~ full}

Poll ==
  /\ pc = "poll" /\ socket = "open" /\ events = {} /\ Reported # {}
  /\ events' = Reported
  /\ edge' = FALSE
  /\ UNCHANGED <<answer, net_vars, ssl_vars, buf_vars, buffer_size, pc, out_vars>>

(* A callback throws and main() closes the socket, or assert() fails. *)
Ends(how) == socket' = how /\ pc' = "poll" /\ events' = {}

-------------------------------------------------------------------------------
(* ssl_connect(): SSL_connect() takes the messages that have arrived.      *)

WantsWrite ==
  /\ full
  /\ m_wait_for_read' = FALSE
  /\ UNCHANGED <<m_ssl_connected, flights, socket>>

WantsRead ==
  /\ ~ full /\ flights.arrived < Flights
  /\ flights' = [flights EXCEPT !.taken = flights.arrived]
  /\ m_wait_for_read' = TRUE
  /\ UNCHANGED <<m_ssl_connected, socket>>

HandshakeOver == ~ full /\ flights.arrived = Flights

(* Mutant: on_read() keeps the turn after the handshake. *)
ConnectedDeaf ==
  /\ HandshakeOver
  /\ flights' = [flights EXCEPT !.taken = Flights]
  /\ m_ssl_connected' = TRUE /\ m_wait_for_read' = TRUE
  /\ UNCHANGED socket

(* Any result but -1 counts as a connection, so that of a peer that shuts  *)
(* the handshake down too.                                                 *)
Connected ==
  /\ HandshakeOver
  /\ flights' = [flights EXCEPT !.taken = Flights]
  /\ m_ssl_connected' = TRUE /\ m_wait_for_read' = FALSE
  /\ UNCHANGED socket

Fails ==
  /\ "no_tls" \in Faults /\ ~ full /\ flights.arrived > flights.taken
  /\ socket' = "aborted"
  /\ UNCHANGED <<m_ssl_connected, m_wait_for_read, flights>>

ssl_connect == WantsWrite \/ WantsRead \/ Connected \/ Fails

-------------------------------------------------------------------------------
(* on_read() *)

OnReadReturns ==
  /\ pc = "poll" /\ "READ" \in events /\ ~ m_wait_for_read
  /\ events' = events \ {"READ"}
  /\ UNCHANGED <<answer, net_vars, edge, ssl_vars, buf_vars, buffer_size, pc, out_vars>>

OnReadConnects ==
  /\ pc = "poll" /\ "READ" \in events /\ m_wait_for_read /\ ~ m_ssl_connected
  /\ ssl_connect
  /\ events' = IF socket' = "open" THEN events \ {"READ"} ELSE {}
  /\ UNCHANGED <<answer, net_vars, edge, m_ssl, requested, buf_vars, buffer_size, pc,
                 stored, processed>>

OnReadStarts ==
  /\ pc = "poll" /\ "READ" \in events /\ m_wait_for_read /\ m_ssl_connected
  /\ events' = events \ {"READ"}
  /\ buffer_size' = size
  /\ pc' = "read"
  /\ UNCHANGED <<answer, net_vars, edge, ssl_vars, buf_vars, out_vars>>

(* The length SSL_read() is asked for. *)
Room == buffer_size - m_read_offset

(* Where the record ends that SSL_read() has in hand or takes.             *)
InHand == IF given = taken /\ taken < arrived THEN RecordEnd(taken) ELSE taken

Readed == Min({Room, InHand - given})

(* Bytes of the body among the first off bytes of the answer. *)
BodyOffset(off) == off - answer.header

(* process_header() finds no delimiter (in a buffer that is full it looks  *)
(* on until a zero, which is assumed to come first); if full, it doubles.  *)
HeaderIncomplete(off) ==
  /\ ~ m_ready_to_receive_json /\ off < answer.header
  /\ m_read_offset' = off
  /\ size' = IF off = size THEN size * 2 ELSE size
  /\ UNCHANGED <<m_json_full_size, m_ready_to_receive_json, pc, events, socket>>

(* get_body_size() or process_header() throws. *)
HeaderInvalid(off) ==
  /\ ~ m_ready_to_receive_json /\ off >= answer.header
  /\ answer.flaw \in {"no_length", "zero_length"}
  /\ m_read_offset' = off
  /\ Ends("closed")
  /\ UNCHANGED <<size, m_json_full_size, m_ready_to_receive_json>>

(* Mutant: the buffer always gets the size of the body. *)
SizeForFitting(body) == body

(* The size of m_buffer for a body: it only grows. *)
SizeFor(body) == IF size < body THEN body ELSE size

(* Mutant: the header is a reason to stop, too. *)
BreakAtHeader(off, full_size) ==
  pc' = IF off = full_size \/ ~ m_ready_to_receive_json THEN "check" ELSE "read"

(* The loop goes on, or breaks off with a whole body. *)
GoOnOrBreak(off, full_size) == pc' = IF off = full_size THEN "check" ELSE "read"

HeaderComplete(off) ==
  /\ ~ m_ready_to_receive_json /\ off >= answer.header
  /\ answer.flaw \notin {"no_length", "zero_length"}
  /\ m_ready_to_receive_json' = TRUE
  /\ m_json_full_size' = answer.body
  /\ m_read_offset' = BodyOffset(off)
  /\ size' = SizeFor(answer.body)
  /\ GoOnOrBreak(BodyOffset(off), answer.body)
  /\ UNCHANGED <<events, socket>>

MoreBody(off) ==
  /\ m_ready_to_receive_json
  /\ m_read_offset' = off
  /\ GoOnOrBreak(off, m_json_full_size)
  /\ UNCHANGED <<size, m_json_full_size, m_ready_to_receive_json, events, socket>>

(* One turn of the loop. *)
Read ==
  /\ pc = "read" /\ Readed > 0
  /\ taken' = InHand
  /\ given' = given + Readed
  /\ LET off == m_read_offset + Readed
     IN  \/ HeaderIncomplete(off)
         \/ HeaderInvalid(off)
         \/ HeaderComplete(off)
         \/ MoreBody(off)
  /\ UNCHANGED <<answer, arrived, full, edge, ssl_vars, buffer_size, stored, processed>>

(* SSL_read() has nothing, or was asked for nothing: it takes a record off *)
(* the socket before it looks at the length.                               *)
ReadsNothing ==
  /\ pc = "read" /\ Readed = 0
  /\ taken' = InHand
  /\ pc' = "check"
  /\ UNCHANGED <<answer, arrived, given, full, edge, ssl_vars, buf_vars, buffer_size, events, out_vars>>

(* Mutant: once the header is there whatever was read is the body. *)
BufferIsFullByHeader == m_ready_to_receive_json

BufferIsFull == m_read_offset = size

(* After the loop, when there is no whole buffer of body. *)
OnReadEnds ==
  /\ pc = "check" /\ ~ BufferIsFull
  /\ pc' = "poll"
  /\ UNCHANGED <<answer, net_vars, edge, ssl_vars, buf_vars, buffer_size, events, out_vars>>

(* process_json(), and the socket is closed: by on_read(), or by main()    *)
(* when it throws.  A level std::stod cannot read throws between others.   *)
ProcessJson ==
  /\ pc = "check" /\ BufferIsFull
  /\ processed' = processed + 1
  /\ \/ /\ answer.flaw \in {"none", "no_json", "no_timestamp"}
        /\ stored' = IF answer.flaw = "none" THEN Levels ELSE 0
     \/ answer.flaw = "bad_level" /\ stored' \in 0 .. Levels - 1
  /\ Ends(IF answer.flaw = "no_json" THEN "aborted" ELSE "closed")
  /\ UNCHANGED <<answer, net_vars, edge, ssl_vars, buf_vars, buffer_size>>

-------------------------------------------------------------------------------
(* on_write() *)

OnWriteReturns ==
  /\ pc = "poll" /\ events = {"WRITE"} /\ m_wait_for_read
  /\ events' = {}
  /\ UNCHANGED <<answer, net_vars, edge, ssl_vars, buf_vars, buffer_size, pc, out_vars>>

(* The handshake starts or goes on here, and does not end yet. *)
OnWriteConnects ==
  /\ pc = "poll" /\ events = {"WRITE"} /\ ~ m_wait_for_read /\ ~ m_ssl_connected
  /\ m_ssl' = TRUE
  /\ WantsWrite \/ WantsRead \/ Fails
  /\ events' = {}
  /\ UNCHANGED <<answer, net_vars, edge, requested, buf_vars, buffer_size, pc, stored, processed>>

(* The handshake has ended here or before, and the request goes out in one *)
(* piece; the server's answer is on its way.                               *)
OnWriteRequests ==
  /\ pc = "poll" /\ events = {"WRITE"} /\ ~ m_wait_for_read
  /\ m_ssl' = TRUE /\ m_ssl_connected' = TRUE
  /\ m_ssl_connected \/ HandshakeOver
  /\ flights' = [flights EXCEPT !.taken = flights.arrived]
  /\ requested' = TRUE
  /\ m_wait_for_read' = TRUE
  /\ events' = {}
  /\ UNCHANGED <<answer, net_vars, edge, buf_vars, buffer_size, pc, out_vars>>

(* SSL_write() fails: the peer has shut the handshake down, or the socket  *)
(* takes nothing (which would be no error).                                *)
OnWriteThrows ==
  /\ pc = "poll" /\ events = {"WRITE"} /\ ~ m_wait_for_read
  /\ m_ssl' = TRUE /\ m_ssl_connected' = TRUE
  /\ \/ m_ssl_connected /\ full
     \/ HandshakeOver /\ "shutdown" \in Faults
  /\ Ends("closed")
  /\ UNCHANGED <<answer, net_vars, edge, m_wait_for_read, requested, flights, buf_vars,
                 buffer_size, stored, processed>>

-------------------------------------------------------------------------------
Client ==
  \/ Poll
  \/ OnReadReturns
  \/ OnReadConnects
  \/ OnReadStarts
  \/ Read
  \/ ReadsNothing
  \/ OnReadEnds
  \/ ProcessJson
  \/ OnWriteReturns
  \/ OnWriteConnects
  \/ OnWriteRequests
  \/ OnWriteThrows

Network ==
  \/ FlightArrives
  \/ RecordArrives
  \/ DrainOutput

Next == Client \/ Network \/ Fill

Spec == Init /\ [][Next]_vars

(* main() polls for ever, and what the server sent arrives. *)
Fairness == WF_vars(Client) /\ WF_vars(FlightArrives) /\ WF_vars(RecordArrives) /\ WF_vars(DrainOutput)

LiveSpec == Spec /\ Fairness

-------------------------------------------------------------------------------
(* Properties. *)

(* The size on_read() took of m_buffer before its loop is stale once       *)
(* process_header() has replaced the buffer, but it never lets SSL_read()  *)
(* write behind the new one, and never asks for a negative length.         *)
ReadsStayInside == pc = "read" => Room >= 0 /\ m_read_offset + Room <= size

(* The body is parsed once, and only when all of it is there and nothing   *)
(* else, after a request on an encrypted connection.                       *)
ParsesWholeBody ==
  processed > 0 =>
    /\ processed = 1 /\ requested /\ m_ready_to_receive_json
    /\ m_read_offset = answer.body /\ m_json_full_size = answer.body

(* The server has answered, and the poller has no reason left to call      *)
(* on_read().                                                              *)
Stuck ==
  /\ requested /\ arrived = Total /\ socket = "open"
  /\ pc = "poll" /\ events = {} /\ "READ" \notin Reported

(* An answer that has arrived and is never used either has a body smaller  *)
(* than m_buffer, which is what must be full (m_json_full_size does not    *)
(* decide), or on_read() left its loop because the stale buffer_size       *)
(* allowed no more, with the rest already out of the poller's sight.       *)
StuckForAReason ==
  Stuck => answer.body < size \/ (m_read_offset = buffer_size /\ given < arrived)

(* on_read() and on_write() hand the handshake to each other through       *)
(* m_wait_for_read; neither waits for the other for ever: a connection on  *)
(* which the server answers is closed, or stuck for the reasons above,     *)
(* once the socket takes output for good.                                  *)
ConnectionEnds == <>[](~ full) => <>(socket # "open" \/ Stuck)

(* An answer without flaw is used, once it was requested, when its body    *)
(* fills the buffer, or its last record begins behind the place where the  *)
(* first on_read() must stop, so that the poller will report it.  (Begins  *)
(* it there, the SSL_read() of no bytes hides it from the poller.)         *)
Roomy ==
  /\ answer.flaw = "none"
  /\ answer.header <= JSON_BUF_INIT_VALUE /\ answer.body >= JSON_BUF_INIT_VALUE
  /\ \/ answer.body = JSON_BUF_INIT_VALUE
     \/ /\ answer.poller = "level"
        /\ LastRecord > answer.header + JSON_BUF_INIT_VALUE

RoomyAnswerIsUsed == Roomy /\ requested ~> stored = Levels
===============================================================================
