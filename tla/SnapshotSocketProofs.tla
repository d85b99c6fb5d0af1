------------------------- MODULE SnapshotSocketProofs -------------------------
(***************************************************************************)
(* Proofs about SnapshotSocket, for every size of the buffer, of the       *)
(* header, of the body and of the TLS records, and whatever the network    *)
(* does: SSL_read() is never given more room than m_buffer has, only a     *)
(* whole body is parsed, and the two ways an answer can get stuck are all  *)
(* there are.                                                              *)
(***************************************************************************)
EXTENDS SnapshotSocket, TLAPS

AnswerTyped ==
  answer.header \in Nat \ {0} /\ answer.body \in Nat \ {0} /\ answer.record \in Nat \ {0}

(* Where records begin and end.                                            *)
Boundary(n) == n = Total \/ \E k \in Nat : n = k * answer.record

(* The answer comes after the request, by whole records, and on_read()     *)
(* gets it last.                                                           *)
Stream ==
  /\ arrived \in Nat /\ taken \in Nat /\ given \in Nat
  /\ given <= taken /\ taken <= arrived /\ arrived <= Total
  /\ Boundary(arrived) /\ Boundary(taken)
  /\ arrived > 0 => requested
  /\ requested => m_wait_for_read /\ m_ssl_connected

(* The stale buffer_size is at most the size, because m_buffer never       *)
(* shrinks, and m_read_offset is at most either while on_read() reads.     *)
BufferBounds ==
  /\ size \in Nat \ {0} /\ m_read_offset \in Nat /\ buffer_size \in Nat
  /\ m_read_offset <= size /\ buffer_size <= size
  /\ pc = "read" => m_read_offset <= buffer_size

(* m_read_offset counts what was read, from the end of the header on once  *)
(* that was found.                                                         *)
HeaderRead ==
  /\ ~ m_ready_to_receive_json /\ socket = "open" =>
       m_read_offset = given /\ given < answer.header /\ m_read_offset < size
  /\ m_ready_to_receive_json =>
       /\ m_read_offset = given - answer.header
       /\ m_json_full_size = answer.body /\ answer.body <= size
       /\ socket = "open" /\ pc = "poll" => m_read_offset < size

Parsing ==
  /\ processed \in {0, 1}
  /\ processed = 1 =>
       /\ socket # "open" /\ requested /\ m_ready_to_receive_json
       /\ m_read_offset = answer.body
  /\ socket # "open" => pc = "poll" /\ events = {}

(* Between two calls of on_read(): the last one had no room for more, or   *)
(* left nothing, or the poller is about to call it again.                  *)
Idle ==
  requested /\ socket = "open" /\ pc # "read" /\ "READ" \notin events =>
    \/ m_read_offset = buffer_size
    \/ given = arrived
    \/ edge /\ taken < arrived

Inv == AnswerTyped /\ Stream /\ BufferBounds /\ HeaderRead /\ Parsing /\ Idle

LEMMA MinOfTwo ==
  ASSUME NEW a \in Int, NEW b \in Int
  PROVE  Min({a, b}) \in {a, b} /\ Min({a, b}) <= a /\ Min({a, b}) <= b
<1>1. \E x \in {a, b} : \A y \in {a, b} : x <= y
  OBVIOUS
<1>2. Min({a, b}) \in {a, b} /\ \A y \in {a, b} : Min({a, b}) <= y
  BY <1>1, Zenon DEF Min
<1> QED
  BY <1>2

LEMMA NextMultiple ==
  ASSUME NEW k \in Nat, NEW m \in Nat, NEW r \in Nat, k * r < m * r
  PROVE  k * r + r <= m * r
<1>1. m > k
  <2>1. m <= k => m * r <= k * r
    OBVIOUS
  <2> QED
    BY <2>1
<1>2. PICK d \in Nat : m = k + 1 + d
  <2>1. m - k - 1 \in Nat /\ m = k + 1 + (m - k - 1)
    BY <1>1
  <2> QED
    BY <2>1
<1>3. m * r = k * r + r + d * r /\ d * r \in Nat /\ k * r \in Nat
  BY <1>2
<1> QED
  BY <1>3

(* The record that begins at n.                                            *)
LEMMA RecordEndBounds ==
  ASSUME AnswerTyped, NEW n \in Nat, n < Total, Boundary(n)
  PROVE  /\ RecordEnd(n) \in Nat /\ n < RecordEnd(n) /\ RecordEnd(n) <= Total
         /\ Boundary(RecordEnd(n))
         /\ \A x \in Nat : Boundary(x) /\ n < x => RecordEnd(n) <= x
<1>1. Total \in Nat /\ answer.record \in Nat \ {0}
  BY DEF AnswerTyped, Total
<1> DEFINE r == answer.record
           e == RecordEnd(n)
<1>2. e \in {n + r, Total} /\ e <= n + r /\ e <= Total
  <2> DEFINE a == n + r
  <2>1. a \in Int /\ Total \in Int
    BY <1>1
  <2> HIDE DEF a
  <2>2. Min({a, Total}) \in {a, Total} /\ Min({a, Total}) <= a /\ Min({a, Total}) <= Total
    BY <2>1, MinOfTwo
  <2> QED
    BY <2>2 DEF RecordEnd, a, e
<1> HIDE DEF e
<1>3. e \in Nat /\ n < e
  BY <1>1, <1>2
<1>4. PICK k \in Nat : n = k * r
  BY <1>1 DEF Boundary
<1>5. Boundary(e)
  <2>1. (k + 1) * r = k * r + r /\ k + 1 \in Nat
    BY <1>1
  <2> QED
    BY <1>2, <1>4, <2>1 DEF Boundary
<1>6. ASSUME NEW x \in Nat, Boundary(x), n < x PROVE e <= x
  <2>1. CASE x = Total
    BY <1>2, <2>1
  <2>2. ASSUME NEW m \in Nat, x = m * r PROVE e <= x
    <3>1. n + r <= x
      BY <1>1, <1>4, <1>6, <2>2, NextMultiple
    <3> QED
      BY <1>1, <1>2, <1>3, <3>1
  <2> QED
    BY <1>6, <2>1, <2>2 DEF Boundary
<1> QED
  BY <1>2, <1>3, <1>5, <1>6 DEF e

LEMMA InitEstablishes == Init => Inv
<1> SUFFICES ASSUME Init PROVE Inv
  OBVIOUS
<1>1. AnswerTyped
  BY SnapshotAssumption DEF Init, Answers, AnswerTyped
<1>2. Stream
  <2>1. Boundary(0)
    <3>1. 0 = 0 * answer.record
      BY <1>1 DEF AnswerTyped
    <3> QED
      BY <3>1 DEF Boundary
  <2> QED
    BY <1>1, <2>1 DEF Init, Stream, Total, AnswerTyped
<1>3. BufferBounds
  BY SnapshotAssumption DEF Init, BufferBounds
<1>4. HeaderRead /\ Parsing /\ Idle
  BY <1>1, SnapshotAssumption DEF Init, HeaderRead, Parsing, Idle, AnswerTyped
<1> QED
  BY <1>1, <1>2, <1>3, <1>4 DEF Inv

(* What SSL_read() hands out, as long as on_read() asks for it.            *)
LEMMA WhatIsRead ==
  ASSUME Inv, pc = "read"
  PROVE  /\ Room \in Nat /\ Room = buffer_size - m_read_offset
         /\ InHand \in Nat /\ given <= InHand /\ InHand <= arrived /\ Boundary(InHand)
         /\ Readed \in Nat /\ Readed <= Room /\ given + Readed <= InHand
         /\ Readed = 0 => Room = 0 \/ given = arrived
<1>1. Room \in Nat /\ Room = buffer_size - m_read_offset
  BY DEF Inv, BufferBounds, Room
<1>2. /\ arrived \in Nat /\ taken \in Nat /\ given \in Nat /\ Total \in Nat
      /\ given <= taken /\ taken <= arrived /\ arrived <= Total
      /\ Boundary(arrived) /\ Boundary(taken) /\ AnswerTyped
  BY DEF Inv, Stream, Total, AnswerTyped
<1>3. /\ InHand \in Nat /\ given <= InHand /\ InHand <= arrived /\ Boundary(InHand)
      /\ InHand = given => given = arrived
  <2>1. CASE given = taken /\ taken < arrived
    <3>1. /\ RecordEnd(taken) \in Nat /\ taken < RecordEnd(taken) /\ RecordEnd(taken) <= arrived
          /\ Boundary(RecordEnd(taken))
      BY <1>2, <2>1, RecordEndBounds
    <3> QED
      BY <1>2, <2>1, <3>1 DEF InHand
  <2>2. CASE ~ (given = taken /\ taken < arrived)
    BY <1>2, <2>2 DEF InHand
  <2> QED
    BY <2>1, <2>2
<1> DEFINE h == InHand
<1> HIDE DEF h
<1>4. h - given \in Nat
  BY <1>2, <1>3 DEF h
<1>5. Readed \in {Room, h - given} /\ Readed <= Room /\ Readed <= h - given
  <2> DEFINE a == h - given
  <2>1. a \in Int /\ Room \in Int
    BY <1>1, <1>4
  <2> HIDE DEF a
  <2>2. Min({Room, a}) \in {Room, a} /\ Min({Room, a}) <= Room /\ Min({Room, a}) <= a
    BY <2>1, MinOfTwo
  <2> QED
    BY <2>2 DEF Readed, h, a
<1>6. Readed \in Nat /\ given + Readed <= h /\ (Readed = 0 => Room = 0 \/ h = given)
  BY <1>1, <1>2, <1>3, <1>4, <1>5 DEF h
<1> QED
  BY <1>1, <1>3, <1>5, <1>6 DEF h

(* A turn of the loop: what is read fits where the loop said it would.     *)
LEMMA ReadPreserves == Inv /\ Read => Inv'
<1> SUFFICES ASSUME Inv, Read PROVE Inv'
  OBVIOUS
<1> DEFINE off == m_read_offset + Readed
<1>1. /\ Room \in Nat /\ Room = buffer_size - m_read_offset
      /\ InHand \in Nat /\ given <= InHand /\ InHand <= arrived /\ Boundary(InHand)
      /\ Readed \in Nat /\ Readed <= Room /\ given + Readed <= InHand
      /\ Readed > 0 /\ pc = "read"
  BY WhatIsRead DEF Read
<1>2. /\ size \in Nat \ {0} /\ m_read_offset \in Nat /\ buffer_size \in Nat
      /\ off \in Nat /\ m_read_offset < off /\ off <= buffer_size /\ buffer_size <= size
  BY <1>1 DEF Inv, BufferBounds
<1>3. /\ UNCHANGED <<answer, arrived, requested, m_wait_for_read, m_ssl_connected, buffer_size,
                     edge, processed>>
      /\ taken' = InHand /\ given' = given + Readed
      /\ HeaderIncomplete(off) \/ HeaderInvalid(off) \/ HeaderComplete(off) \/ MoreBody(off)
  BY DEF Read, ssl_vars
<1>4. /\ socket = "open" /\ processed = 0 /\ given \in Nat /\ arrived \in Nat /\ arrived <= Total
      /\ given' \in Nat /\ given' <= arrived
      /\ answer.header \in Nat \ {0} /\ answer.body \in Nat \ {0} /\ Total = answer.header + answer.body
  BY <1>1, <1>3 DEF Inv, Parsing, Stream, AnswerTyped, Total
<1>5. /\ ~ m_ready_to_receive_json => off = given'
      /\ m_ready_to_receive_json => off = given' - answer.header
  BY <1>1, <1>2, <1>3, <1>4 DEF Inv, HeaderRead
<1> HIDE DEF off
<1>6. AnswerTyped'
  BY <1>3 DEF Inv, AnswerTyped
<1>7. Stream'
  <2>1. Boundary(arrived)' = Boundary(arrived) /\ Boundary(taken)' = Boundary(InHand) /\ Total' = Total
    BY <1>3 DEF Boundary, Total
  <2> QED
    BY <1>1, <1>3, <1>4, <2>1 DEF Inv, Stream
<1>8. BufferBounds' /\ HeaderRead' /\ Parsing' /\ Idle'
  <2>1. CASE HeaderIncomplete(off)
    <3>1. /\ ~ m_ready_to_receive_json /\ off < answer.header /\ m_read_offset' = off
          /\ size' = (IF off = size THEN size * 2 ELSE size)
          /\ UNCHANGED <<m_ready_to_receive_json, pc, events, socket>>
      BY <2>1 DEF HeaderIncomplete
    <3>2. size' \in Nat \ {0} /\ size <= size' /\ off < size'
      BY <1>2, <3>1
    <3>3. BufferBounds'
      BY <1>2, <1>3, <3>1, <3>2 DEF BufferBounds
    <3>4. HeaderRead'
      BY <1>3, <1>5, <3>1, <3>2 DEF HeaderRead
    <3> QED
      BY <1>1, <1>3, <1>4, <3>1, <3>3, <3>4 DEF Parsing, Idle
  <2>2. CASE HeaderInvalid(off)
    <3>1. /\ ~ m_ready_to_receive_json /\ m_read_offset' = off /\ size' = size
          /\ m_ready_to_receive_json' = m_ready_to_receive_json
          /\ socket' = "closed" /\ pc' = "poll" /\ events' = {}
      BY <2>2 DEF HeaderInvalid, Ends
    <3> QED
      BY <1>2, <1>3, <1>4, <3>1 DEF BufferBounds, HeaderRead, Parsing, Idle
  <2>3. CASE HeaderComplete(off)
    <3>1. /\ ~ m_ready_to_receive_json /\ off >= answer.header /\ m_read_offset' = off - answer.header
          /\ size' = (IF size < answer.body THEN answer.body ELSE size)
          /\ m_ready_to_receive_json' /\ m_json_full_size' = answer.body
          /\ pc' = (IF off - answer.header = answer.body THEN "check" ELSE "read")
          /\ UNCHANGED <<events, socket>>
      BY <2>3 DEF HeaderComplete, BodyOffset, SizeFor, GoOnOrBreak
    <3>2. /\ size' \in Nat \ {0} /\ size <= size' /\ answer.body <= size'
          /\ m_read_offset' \in Nat /\ m_read_offset' <= off
      BY <1>2, <1>4, <3>1
    <3>3. BufferBounds'
      BY <1>2, <1>3, <3>1, <3>2 DEF BufferBounds
    <3>4. HeaderRead'
      BY <1>3, <1>5, <3>1, <3>2 DEF HeaderRead
    <3>5. Idle'
      <4>1. pc' = "check" => given' = Total
        BY <1>4, <1>5, <1>2, <3>1
      <4> QED
        BY <1>3, <1>4, <3>1, <4>1 DEF Idle
    <3> QED
      BY <1>3, <1>4, <3>1, <3>3, <3>4, <3>5 DEF Parsing
  <2>4. CASE MoreBody(off)
    <3>1. /\ m_ready_to_receive_json /\ m_read_offset' = off /\ size' = size
          /\ m_json_full_size' = m_json_full_size /\ m_ready_to_receive_json'
          /\ m_json_full_size = answer.body /\ answer.body <= size
          /\ pc' = (IF off = answer.body THEN "check" ELSE "read")
          /\ UNCHANGED <<events, socket>>
      BY <2>4 DEF MoreBody, GoOnOrBreak, Inv, HeaderRead
    <3>2. BufferBounds'
      BY <1>2, <1>3, <3>1 DEF BufferBounds
    <3>3. HeaderRead'
      BY <1>3, <1>5, <3>1 DEF HeaderRead
    <3>4. Idle'
      <4>1. pc' = "check" => given' = Total
        BY <1>4, <1>5, <1>2, <3>1
      <4> QED
        BY <1>3, <1>4, <3>1, <4>1 DEF Idle
    <3> QED
      BY <1>3, <1>4, <3>1, <3>2, <3>3, <3>4 DEF Parsing
  <2> QED
    BY <1>3, <2>1, <2>2, <2>3, <2>4
<1> QED
  BY <1>6, <1>7, <1>8 DEF Inv

(* The steps that move neither an offset nor a size.                       *)
LEMMA BufferKept ==
  ASSUME Inv, UNCHANGED <<answer, arrived, taken, given, size, m_read_offset, m_json_full_size,
                          m_ready_to_receive_json, buffer_size>>,
         requested => requested' /\ m_wait_for_read' /\ m_ssl_connected',
         requested' => m_wait_for_read' /\ m_ssl_connected',
         pc' \notin {"read", "poll"} \/ pc' = pc
  PROVE  AnswerTyped' /\ Stream' /\ BufferBounds' /\ (socket' = socket => HeaderRead')
<1>1. AnswerTyped' /\ BufferBounds'
  BY DEF Inv, AnswerTyped, BufferBounds
<1>2. Stream'
  BY DEF Inv, Stream, Boundary, Total
<1>3. socket' = socket => HeaderRead'
  BY DEF Inv, HeaderRead
<1> QED
  BY <1>1, <1>2, <1>3

LEMMA NextPreserves == Inv /\ [Next]_vars => Inv'
<1> SUFFICES ASSUME Inv, [Next]_vars PROVE Inv'
  OBVIOUS
<1> USE DEF net_vars, ssl_vars, buf_vars, out_vars
<1>0. (requested => m_wait_for_read /\ m_ssl_connected) /\ Parsing /\ Idle
  BY DEF Inv, Stream
<1>1. CASE Read
  BY <1>1, ReadPreserves
<1>2. CASE OnReadStarts
  <2>1. /\ UNCHANGED <<answer, arrived, taken, given, requested, m_wait_for_read, m_ssl_connected,
                       size, m_read_offset, m_json_full_size, m_ready_to_receive_json, socket,
                       processed, edge>>
        /\ buffer_size' = size /\ pc' = "read" /\ "READ" \in events
    BY <1>2 DEF OnReadStarts
  <2>2. AnswerTyped' /\ Stream' /\ BufferBounds'
    BY <2>1 DEF Inv, AnswerTyped, Stream, BufferBounds, Boundary, Total
  <2>3. HeaderRead' /\ Parsing' /\ Idle'
    BY <2>1 DEF Inv, HeaderRead, Parsing, Idle
  <2> QED
    BY <2>2, <2>3 DEF Inv
<1>3. CASE RecordArrives
  <2>1. /\ requested /\ arrived < Total /\ arrived' = RecordEnd(arrived) /\ edge'
        /\ UNCHANGED <<answer, taken, given, requested, m_wait_for_read, m_ssl_connected,
                       size, m_read_offset, m_json_full_size, m_ready_to_receive_json, socket,
                       buffer_size, processed, pc, events>>
    BY <1>3 DEF RecordArrives
  <2>2. /\ arrived' \in Nat /\ arrived < arrived' /\ arrived' <= Total /\ Boundary(arrived')
        /\ taken \in Nat /\ arrived \in Nat /\ given \in Nat /\ taken <= arrived
    BY <2>1, RecordEndBounds DEF Inv, Stream
  <2>3. AnswerTyped' /\ BufferBounds' /\ HeaderRead' /\ Parsing'
    BY <2>1 DEF Inv, AnswerTyped, BufferBounds, HeaderRead, Parsing
  <2>4. Stream'
    <3>1. Boundary(arrived)' /\ Boundary(taken)' /\ Total' = Total
      BY <2>1, <2>2 DEF Inv, Stream, Boundary, Total
    <3> QED
      BY <2>1, <2>2, <3>1 DEF Inv, Stream
  <2>5. Idle'
    BY <2>1, <2>2 DEF Idle
  <2> QED
    BY <2>3, <2>4, <2>5 DEF Inv
<1>4. CASE OnWriteRequests
  <2>1. /\ UNCHANGED <<answer, arrived, taken, given, size, m_read_offset, m_json_full_size,
                       m_ready_to_receive_json, socket, buffer_size, processed, pc, edge>>
        /\ ~ m_wait_for_read /\ requested' /\ m_wait_for_read' /\ m_ssl_connected'
        /\ events' = {} /\ pc = "poll"
    BY <1>4 DEF OnWriteRequests
  <2>2. ~ requested /\ given = arrived
    BY <1>0, <2>1 DEF Inv, Stream
  <2>3. AnswerTyped' /\ Stream' /\ BufferBounds' /\ HeaderRead'
    BY <2>1, BufferKept
  <2>4. Parsing' /\ Idle'
    BY <1>0, <2>1, <2>2 DEF Parsing, Idle
  <2> QED
    BY <2>3, <2>4 DEF Inv
<1>5. CASE Poll
  <2>1. /\ UNCHANGED <<answer, arrived, taken, given, size, m_read_offset, m_json_full_size,
                       m_ready_to_receive_json, socket, buffer_size, processed, pc,
                       requested, m_wait_for_read, m_ssl_connected>>
        /\ events = {} /\ socket = "open" /\ events' = Reported /\ Reported # {} /\ pc = "poll"
    BY <1>5 DEF Poll
  <2>2. taken < arrived => "READ" \in events'
    BY <2>1 DEF Reported, Readable
  <2>3. AnswerTyped' /\ Stream' /\ BufferBounds' /\ HeaderRead'
    BY <1>0, <2>1, BufferKept
  <2>4. Parsing' /\ Idle'
    BY <1>0, <2>1, <2>2 DEF Parsing, Idle
  <2> QED
    BY <2>3, <2>4 DEF Inv
<1>6. CASE ReadsNothing
  <2>1. /\ UNCHANGED <<answer, arrived, given, size, m_read_offset, m_json_full_size,
                       m_ready_to_receive_json, socket, buffer_size, processed, events, edge,
                       requested, m_wait_for_read, m_ssl_connected>>
        /\ pc = "read" /\ Readed = 0 /\ taken' = InHand /\ pc' = "check"
    BY <1>6 DEF ReadsNothing
  <2>2. m_read_offset = buffer_size \/ given = arrived
    <3>1. Room = 0 \/ given = arrived
      BY <2>1, WhatIsRead
    <3>2. m_read_offset \in Nat /\ buffer_size \in Nat
      BY DEF Inv, BufferBounds
    <3> QED
      BY <3>1, <3>2 DEF Room
  <2>3. AnswerTyped' /\ BufferBounds' /\ HeaderRead'
    BY <2>1 DEF Inv, AnswerTyped, BufferBounds, HeaderRead
  <2>4. Stream'
    <3>1. taken' \in Nat /\ given <= taken' /\ taken' <= arrived /\ Boundary(taken')
      BY <2>1, WhatIsRead
    <3>2. Boundary(taken)' /\ Boundary(arrived)' /\ Total' = Total
      BY <2>1, <3>1 DEF Inv, Stream, Boundary, Total
    <3> QED
      BY <2>1, <3>1, <3>2 DEF Inv, Stream
  <2>5. Parsing' /\ Idle'
    BY <1>0, <2>1, <2>2 DEF Parsing, Idle
  <2> QED
    BY <2>3, <2>4, <2>5 DEF Inv
<1>7. CASE OnReadEnds
  <2>1. /\ UNCHANGED <<answer, arrived, taken, given, size, m_read_offset, m_json_full_size,
                       m_ready_to_receive_json, socket, buffer_size, processed, events, edge,
                       requested, m_wait_for_read, m_ssl_connected>>
        /\ pc = "check" /\ pc' = "poll" /\ m_read_offset # size
    BY <1>7 DEF OnReadEnds, BufferIsFull
  <2>2. AnswerTyped' /\ Stream' /\ BufferBounds'
    BY <2>1 DEF Inv, AnswerTyped, Stream, BufferBounds, Boundary, Total
  <2>3. HeaderRead'
    BY <2>1 DEF Inv, HeaderRead, BufferBounds
  <2>4. Parsing' /\ Idle'
    BY <1>0, <2>1 DEF Parsing, Idle
  <2> QED
    BY <2>2, <2>3, <2>4 DEF Inv
<1>8. CASE ProcessJson
  <2>1. /\ UNCHANGED <<answer, arrived, taken, given, size, m_read_offset, m_json_full_size,
                       m_ready_to_receive_json, buffer_size, requested, m_wait_for_read,
                       m_ssl_connected>>
        /\ pc = "check" /\ pc' = "poll" /\ m_read_offset = size /\ events' = {}
        /\ processed' = processed + 1 /\ socket' # "open"
    BY <1>8 DEF ProcessJson, BufferIsFull, Ends
  <2>2. AnswerTyped' /\ Stream' /\ BufferBounds'
    BY <2>1 DEF Inv, AnswerTyped, Stream, BufferBounds, Boundary, Total
  <2>3. socket = "open" /\ processed = 0
    BY <1>0, <2>1 DEF Parsing
  <2>4. m_ready_to_receive_json /\ m_read_offset = answer.body /\ requested
    <3>1. /\ size \in Nat /\ given \in Nat /\ arrived \in Nat /\ given <= arrived /\ arrived <= Total
          /\ Total = answer.header + answer.body /\ answer.header \in Nat \ {0}
          /\ answer.body \in Nat \ {0} /\ (arrived > 0 => requested)
      BY DEF Inv, BufferBounds, Stream, AnswerTyped, Total
    <3>2. m_ready_to_receive_json
      BY <2>1, <2>3, <3>1 DEF Inv, HeaderRead
    <3>3. m_read_offset = given - answer.header /\ answer.body <= size
      BY <3>2 DEF Inv, HeaderRead
    <3> QED
      BY <2>1, <3>1, <3>2, <3>3
  <2>5. HeaderRead'
    BY <2>1, <2>4 DEF Inv, HeaderRead
  <2>6. Parsing' /\ Idle'
    BY <2>1, <2>3, <2>4 DEF Parsing, Idle
  <2> QED
    BY <2>2, <2>5, <2>6 DEF Inv
<1>9. ASSUME UNCHANGED <<answer, arrived, taken, given, size, m_read_offset, m_json_full_size,
                         m_ready_to_receive_json, buffer_size, processed, requested>>,
             requested => m_wait_for_read' /\ m_ssl_connected', edge => edge',
             events = {} => events' = {},
             \/ /\ UNCHANGED <<pc, socket>>
                /\ requested /\ "READ" \in events => "READ" \in events'
             \/ pc = "poll" /\ pc' = "poll" /\ events' = {} /\ socket = "open" /\ socket' # "open"
      PROVE  Inv'
  <2>1. AnswerTyped' /\ Stream' /\ BufferBounds'
    BY <1>9, BufferKept
  <2>2. HeaderRead'
    BY <1>9 DEF Inv, HeaderRead
  <2>3. Parsing' /\ Idle'
    BY <1>0, <1>9 DEF Parsing, Idle
  <2> QED
    BY <2>1, <2>2, <2>3 DEF Inv
<1>10. CASE FlightArrives \/ DrainOutput \/ Fill \/ UNCHANGED vars
  BY <1>0, <1>9, <1>10 DEF FlightArrives, DrainOutput, Fill, vars
<1>11. CASE OnReadReturns \/ OnWriteReturns
  BY <1>0, <1>9, <1>11 DEF OnReadReturns, OnWriteReturns
<1>12. CASE OnReadConnects
  <2>1. /\ UNCHANGED <<answer, arrived, taken, given, size, m_read_offset, m_json_full_size,
                       m_ready_to_receive_json, buffer_size, processed, requested, edge, pc>>
        /\ pc = "poll" /\ ~ requested /\ "READ" \in events
        /\ socket' = socket \/ socket' = "aborted"
        /\ socket' # "open" => events' = {}
    BY <1>0, <1>12 DEF OnReadConnects, ssl_connect, WantsWrite, WantsRead, Connected, Fails
  <2>2. socket = "open"
    BY <1>0, <2>1 DEF Parsing
  <2> QED
    BY <1>9, <2>1, <2>2
<1>13. CASE OnWriteConnects
  <2>1. /\ UNCHANGED <<answer, arrived, taken, given, size, m_read_offset, m_json_full_size,
                       m_ready_to_receive_json, buffer_size, processed, requested, edge, pc>>
        /\ pc = "poll" /\ ~ requested /\ events = {"WRITE"} /\ events' = {}
        /\ socket' = socket \/ socket' = "aborted"
    BY <1>0, <1>13 DEF OnWriteConnects, WantsWrite, WantsRead, Fails
  <2>2. socket = "open"
    BY <1>0, <2>1 DEF Parsing
  <2> QED
    BY <1>9, <2>1, <2>2
<1>14. CASE OnWriteThrows
  <2>1. /\ UNCHANGED <<answer, arrived, taken, given, size, m_read_offset, m_json_full_size,
                       m_ready_to_receive_json, buffer_size, processed, requested, edge>>
        /\ pc = "poll" /\ ~ requested /\ events = {"WRITE"} /\ events' = {}
        /\ socket' = "closed" /\ pc' = "poll"
    BY <1>0, <1>14 DEF OnWriteThrows, Ends
  <2>2. socket = "open"
    BY <1>0, <2>1 DEF Parsing
  <2> QED
    BY <1>9, <2>1, <2>2
<1> QED
  BY <1>1, <1>2, <1>3, <1>4, <1>5, <1>6, <1>7, <1>8, <1>10, <1>11, <1>12, <1>13, <1>14
     DEF Next, Client, Network

LEMMA AlwaysInv == Spec => []Inv
BY InitEstablishes, NextPreserves, PTL DEF Spec

(* SSL_read() never writes behind m_buffer, and is never asked for less than *)
(* nothing, though its length comes from the size the buffer had before the  *)
(* loop.                                                                     *)
THEOREM ReadsAlwaysInside == Spec => []ReadsStayInside
<1>1. Inv => ReadsStayInside
  BY DEF Inv, BufferBounds, ReadsStayInside, Room
<1> QED
  BY <1>1, AlwaysInv, PTL

(* process_json() runs once at most, and only on a whole body and nothing    *)
(* else, though what it waits for is a full buffer and not a full body.      *)
THEOREM ParsesOnlyWholeBody == Spec => []ParsesWholeBody
<1>1. Inv => ParsesWholeBody
  BY DEF Inv, Parsing, HeaderRead, ParsesWholeBody
<1> QED
  BY <1>1, AlwaysInv, PTL

(* An answer that has arrived and is not used is too small for the buffer,   *)
(* or is left in the socket because the stale size allowed no more: there is *)
(* no third way for the connection to get stuck, with a poller that reports  *)
(* changes or one that reports conditions.                                   *)
THEOREM NoOtherWayToStick == Spec => []StuckForAReason
<1>1. Inv => StuckForAReason
  <2> SUFFICES ASSUME Inv, Stuck, m_read_offset # buffer_size \/ ~ (given < arrived)
      PROVE  answer.body < size
    BY DEF StuckForAReason
  <2>1. /\ requested /\ arrived = Total /\ socket = "open" /\ pc = "poll" /\ events = {}
        /\ "READ" \notin Reported
    BY DEF Stuck
  <2>2. /\ arrived \in Nat /\ given \in Nat /\ given <= arrived /\ size \in Nat
        /\ answer.header \in Nat \ {0} /\ answer.body \in Nat \ {0}
        /\ Total = answer.header + answer.body
    BY DEF Inv, Stream, BufferBounds, AnswerTyped, Total
  <2>3. ~ (edge /\ taken < arrived)
    BY <2>1 DEF Reported, Readable
  <2>4. given = Total
    BY <2>1, <2>2, <2>3 DEF Inv, Idle
  <2>5. m_ready_to_receive_json
    BY <2>1, <2>2, <2>4 DEF Inv, HeaderRead
  <2>6. m_read_offset = given - answer.header /\ m_read_offset < size
    BY <2>1, <2>5 DEF Inv, HeaderRead
  <2> QED
    BY <2>2, <2>4, <2>6
<1> QED
  BY <1>1, AlwaysInv, PTL
===============================================================================
