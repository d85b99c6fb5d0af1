--------------------------- MODULE DiffLogicProofs ---------------------------
(***************************************************************************)
(* Proofs about DiffLogic and FrameReader, for every size of the buffer,   *)
(* of the response and of the frames, and every way the bytes are cut into *)
(* reads and writes: frames end where they were sent, are handled once and *)
(* in turn, fall behind only by the two ways the code has, never fill the  *)
(* buffer for good, and what goes out is whole and in order.               *)
(***************************************************************************)
EXTENDS MCDiffLogic, FiniteSetTheorems, SequenceTheorems, TLAPS

LEMMA MinOfTwo ==
  ASSUME NEW a \in Int, NEW b \in Int
  PROVE  Min({a, b}) \in {a, b} /\ Min({a, b}) <= a /\ Min({a, b}) <= b
<1>1. \E x \in {a, b} : \A y \in {a, b} : x <= y
  OBVIOUS
<1>2. Min({a, b}) \in {a, b} /\ \A y \in {a, b} : Min({a, b}) <= y
  BY <1>1, Zenon DEF Min
<1> QED
  BY <1>2

-------------------------------------------------------------------------------
(* Single frames. *)

(* What deserialize() says of the first a bytes of a peer's frame.         *)
LEMMA DeserializeFacts ==
  ASSUME NEW t, NEW n \in Nat, NEW a \in Nat
  PROVE  LET f == F!PeerFrame(t, n)
         IN  /\ f.size \in Nat /\ f.size >= 2 + n
             /\ F!Deserialize(f, a) # 0 => F!Deserialize(f, a) = f.size /\ f.size <= a
             /\ F!Deserialize(f, a) = 0 => a < f.size \/ (a = 2 /\ n = 0)
<1> DEFINE f == F!PeerFrame(t, n)
<1> DEFINE c == IF n <= 125 THEN n ELSE IF n <= 65535 THEN 126 ELSE 127
<1>0. c \in Nat
  OBVIOUS
<1>1. f = F!Written(t, FALSE, n, c)
  BY DEF F!PeerFrame, F!ShortMax, F!WordMax, F!Code16, F!Code64
<1>2. n <= 65535 => n % 65536 = n
  OBVIOUS
<1>3. f.masked = FALSE /\ f.code = c /\ f.size = 2 + F!ExtSize(c) + 0 + n
  BY <1>1 DEF F!Written, F!KeySize
<1>4. f.length = IF c = 126 THEN n % 65536 ELSE n
  <2>1. f.length = IF c = F!Code16 THEN n % (F!WordMax + 1) ELSE n
    BY <1>1 DEF F!Written
  <2>2. F!WordMax + 1 = 65536 /\ F!Code16 = 126
    BY DEF F!WordMax, F!Code16
  <2> QED
    BY <2>1, <2>2
<1>5. f.length = n
  BY <1>2, <1>4
<1>6. F!ExtSize(c) = IF n <= 125 THEN 0 ELSE IF n <= 65535 THEN 2 ELSE 8
  BY DEF F!ExtSize, F!Code16, F!Code64
<1> HIDE DEF f, c
<1>8. F!EndOf(f) = f.size
  BY <1>3, <1>5, <1>6 DEF F!EndOf, F!KeySize
<1>9. F!Deserialize(f, a) =
        IF a > 2 /\ a > 2 + F!ExtSize(c) /\ f.size <= a THEN f.size ELSE 0
  BY <1>3, <1>8 DEF F!Deserialize, F!HeaderIsHere
<1>10. f.size = 2 + F!ExtSize(c) + n
  BY <1>3, <1>6
<1>11. /\ f.size \in Nat /\ f.size >= 2 + n
       /\ F!Deserialize(f, a) # 0 => F!Deserialize(f, a) = f.size /\ f.size <= a
       /\ F!Deserialize(f, a) = 0 => a < f.size \/ (a = 2 /\ n = 0)
  BY <1>6, <1>9, <1>10
<1> QED
  BY <1>11 DEF f

(* And of a frame that serialize() or a peer has written.                  *)
LEMMA WrittenFacts ==
  ASSUME NEW t, NEW m \in BOOLEAN, NEW n \in Nat, NEW c \in Nat, NEW a \in Nat,
         c \in {126, 127} \/ (c = n /\ n <= 125),
         n = 0 => c = 0
  PROVE  LET f == Reader!Written(t, m, n, c)
             e == Reader!Deserialize(f, a)
         IN  /\ e \in Nat
             /\ e # 0 => e <= a /\ (e = f.size \/ Reader!Oversized(f))
             /\ a >= f.size /\ e = 0 => f.size = 2 /\ a = 2
             /\ f.size \in Nat
<1> DEFINE f == Reader!Written(t, m, n, c)
           x == Reader!ExtSize(c)
           k == Reader!KeySize(m)
<1>1. n % 65536 \in Nat /\ n % 65536 <= n
  OBVIOUS
<1>2. /\ f.masked = m /\ f.code = c /\ f.payload = n
      /\ f.size = 2 + x + k + n
  BY DEF Reader!Written
<1>3. f.length = IF c = 126 THEN n % 65536 ELSE n
  <2>1. f.length = IF c = Reader!Code16 THEN n % (Reader!WordMax + 1) ELSE n
    BY DEF Reader!Written
  <2>2. Reader!WordMax + 1 = 65536 /\ Reader!Code16 = 126
    BY DEF Reader!WordMax, Reader!Code16
  <2> QED
    BY <2>1, <2>2
<1>4. /\ x \in Nat /\ k \in Nat
      /\ n = 0 => x = 0
  BY DEF Reader!ExtSize, Reader!KeySize, Reader!Code16, Reader!Code64
<1>5. f.length \in Nat /\ f.length <= n /\ (c # 126 => f.length = n)
  BY <1>1, <1>3
<1> HIDE DEF f
<1>6. Reader!EndOf(f) = 2 + x + k + f.length
  BY <1>2 DEF Reader!EndOf
<1>7. Reader!Deserialize(f, a) =
        IF a > 2 /\ a > 2 + x /\ Reader!EndOf(f) <= a THEN Reader!EndOf(f) ELSE 0
  BY <1>2 DEF Reader!Deserialize, Reader!HeaderIsHere
<1>8. Reader!Oversized(f) <=> c = 126 /\ f.length # n
  BY <1>2 DEF Reader!Oversized, Reader!Code16
<1> HIDE DEF x, k
<1>9. Reader!EndOf(f) \in Nat /\ Reader!EndOf(f) >= 2 /\ Reader!EndOf(f) <= f.size
  BY <1>2, <1>4, <1>5, <1>6
<1>10. f.length # n \/ Reader!EndOf(f) = f.size
  BY <1>2, <1>4, <1>5, <1>6
<1>11. Reader!Deserialize(f, a) # 0 => f.size = Reader!EndOf(f) \/ Reader!Oversized(f)
  BY <1>5, <1>8, <1>10
<1>12. a >= f.size /\ Reader!Deserialize(f, a) = 0 => f.size = 2 /\ a = 2
  BY <1>2, <1>4, <1>7, <1>9
<1>13. Reader!Deserialize(f, a) \in Nat /\ Reader!Deserialize(f, a) <= a
  BY <1>7, <1>9
<1> QED
  BY <1>2, <1>4, <1>7, <1>11, <1>12, <1>13 DEF f

ReaderInv ==
  /\ avail \in Nat
  /\ frame \in Reader!OwnFrames \cup Reader!PeerFrames
  /\ frame_end = Reader!Deserialize(frame, avail)

LEMMA ReaderFrames ==
  ASSUME NEW f \in Reader!OwnFrames \cup Reader!PeerFrames, NEW a \in Nat
  PROVE  LET e == Reader!Deserialize(f, a)
         IN  /\ e \in Nat
             /\ e # 0 => e <= a /\ (e = f.size \/ Reader!Oversized(f))
             /\ a >= f.size /\ e = 0 => f.size = 2 /\ a = 2
             /\ f.size \in Nat
<1>1. CASE f \in Reader!OwnFrames
  <2>1. PICK m \in BOOLEAN, n \in Lengths : f = Reader!Serialize(Reader!TEXT, m, n)
    BY <1>1 DEF Reader!OwnFrames
  <2>2. n \in Nat
    BY LengthsAssumption
  <2>3. PICK c \in Nat : c = Reader!CodeOf(n)
    BY <2>2 DEF Reader!CodeOf, Reader!ShortMax, Reader!Code16, Reader!Code64
  <2>4. (c \in {126, 127} \/ (c = n /\ n <= 125)) /\ (n = 0 => c = 0)
    <3>1. CASE n <= 125
      BY <2>2, <2>3, <3>1 DEF Reader!CodeOf, Reader!ShortMax
    <3>2. CASE ~ (n <= 125)
      BY <2>2, <2>3, <3>2 DEF Reader!CodeOf, Reader!ShortMax, Reader!Code16, Reader!Code64
    <3> QED
      BY <3>1, <3>2
  <2>5. f = Reader!Written(Reader!TEXT, m, n, c)
    BY <2>1, <2>3 DEF Reader!Serialize
  <2> QED
    BY <2>2, <2>4, <2>5, WrittenFacts
<1>2. CASE f \in Reader!PeerFrames
  <2>1. PICK t \in {Reader!TEXT, Reader!PING}, n \in Lengths : f = Reader!PeerFrame(t, n)
    BY <1>2 DEF Reader!PeerFrames
  <2>2. n \in Nat
    BY LengthsAssumption
  <2>3. PICK c \in Nat : c = IF n <= 125 THEN n ELSE IF n <= 65535 THEN 126 ELSE 127
    BY <2>2
  <2>4. (c \in {126, 127} \/ (c = n /\ n <= 125)) /\ (n = 0 => c = 0)
    <3>1. CASE n <= 125
      BY <2>2, <2>3, <3>1
    <3>2. CASE ~ (n <= 125)
      BY <2>2, <2>3, <3>2
    <3> QED
      BY <3>1, <3>2
  <2>5. f = Reader!Written(t, FALSE, n, c)
    BY <2>1, <2>3 DEF Reader!PeerFrame, Reader!ShortMax, Reader!WordMax, Reader!Code16, Reader!Code64
  <2>6. PICK m \in BOOLEAN : f = Reader!Written(t, m, n, c)
    BY <2>5
  <2> QED
    BY <2>2, <2>4, <2>6, WrittenFacts
<1> QED
  BY <1>1, <1>2

LEMMA ReaderInit == part = "frame" /\ Reader!Init => ReaderInv
<1> SUFFICES ASSUME Reader!Init PROVE ReaderInv
  OBVIOUS
<1>1. frame \in Reader!OwnFrames \cup Reader!PeerFrames /\ avail = 0 /\ frame_end = 0
  BY DEF Reader!Init
<1>2. Reader!Deserialize(frame, 0) = 0
  BY <1>1 DEF Reader!Deserialize, Reader!HeaderIsHere
<1> QED
  BY <1>1, <1>2 DEF ReaderInv

LEMMA ReaderStep ==
  ASSUME ReaderInv, Reader!Next
  PROVE  ReaderInv'
<1>1. CASE Reader!Read
  <2>1. PICK k \in Reader!Boundaries :
          k > avail /\ avail' = k /\ frame_end' = Reader!Deserialize(frame, k) /\ frame' = frame
    BY <1>1 DEF Reader!Read
  <2>2. frame.size \in Int
    BY ReaderFrames DEF ReaderInv
  <2>3. avail' \in Nat
    BY <2>1, <2>2 DEF Reader!Boundaries, ReaderInv
  <2> QED
    BY <2>1, <2>3 DEF ReaderInv, Reader!OwnFrames, Reader!PeerFrames
<1>2. CASE Reader!Shift
  <2>1. /\ frame_end # 0 /\ avail' = avail - frame_end
        /\ frame' \in Reader!OwnFrames \cup Reader!PeerFrames
        /\ frame_end' = Reader!Deserialize(frame', avail')
    BY <1>2 DEF Reader!Shift
  <2>2. frame_end \in Nat /\ frame_end <= avail
    BY <2>1, ReaderFrames DEF ReaderInv
  <2>3. avail' \in Nat
    BY <2>1, <2>2 DEF ReaderInv
  <2> QED
    BY <2>1, <2>3 DEF ReaderInv, Reader!OwnFrames, Reader!PeerFrames
<1> QED
  BY <1>1, <1>2 DEF Reader!Next

SingleFrame == part = "frame" => ReaderInv

(* deserialize() ends every frame where its sender ended it and reports no   *)
(* whole frame as incomplete, but for the frames over 64K that serialize()   *)
(* writes and the empty frame that nothing follows, for all payload lengths  *)
(* and every cut into reads.                                                 *)
THEOREM AlwaysEndWhereSent == MCSpec => []FramesEndWhereSent
<1>1. MCInit => SingleFrame
  BY ReaderInit DEF MCInit, SingleFrame
<1>2. SingleFrame /\ [MCNext]_<<part, vars, frame, avail, frame_end>> => SingleFrame'
  <2>1. SingleFrame /\ MCNext => SingleFrame'
    BY ReaderStep DEF MCNext, SingleFrame
  <2>2. SingleFrame /\ UNCHANGED <<part, vars, frame, avail, frame_end>> => SingleFrame'
    BY DEF SingleFrame, ReaderInv, Reader!OwnFrames, Reader!PeerFrames
  <2> QED
    BY <2>1, <2>2
<1>3. SingleFrame => FramesEndWhereSent
  BY ReaderFrames DEF SingleFrame, ReaderInv, FramesEndWhereSent, Reader!EndsWhereSent,
     Reader!LateOnlyIfEmpty
<1> QED
  BY <1>1, <1>2, <1>3, PTL DEF MCSpec

-------------------------------------------------------------------------------
(* The socket. *)

LEMMA Sizes ==
  /\ BUFFER_SIZE \in Nat /\ BUFFER_SIZE > 2 /\ RequestSize \in Nat
  /\ ResponseSize \in Nat /\ ResponseSize > 0 /\ SubscribeSize \in Nat
  /\ Levels \in Nat /\ Levels > 0 /\ N \in Nat /\ 2 + SubscribeSize \in Nat
BY DiffAssumption

OutputFrame == [id : Nat, size : Nat, offset : Nat]

Typed ==
  /\ sent \in Seq([kind : Kinds, end : Nat]) /\ responded \in BOOLEAN /\ arrived \in Nat
  /\ m_state \in {"HANDSHAKE", "HANDSHAKE_RESPONSE", "IN_WORK"}
  /\ base \in Nat /\ m_offset \in Nat /\ dropped \in Nat /\ excess \in Nat
  /\ reading \in BOOLEAN /\ socket \in {"open", "closed", "aborted"}
  /\ m_output_queue \in Seq(OutputFrame) /\ generated \in Nat
  /\ written \in Seq(Nat \X Nat)
  /\ stored \in Seq(Nat \X Nat) /\ free \in Nat

(* Every frame of the stream ends where its bytes end, behind the one      *)
(* before it, and only what was sent has arrived.                          *)
Stream ==
  /\ \A i \in Frames : EndAt(i) = EndAt(i - 1) + FrameOf(sent[i].kind).size
  /\ \A i, j \in 0 .. Len(sent) : i < j => EndAt(i) < EndAt(j)
  /\ arrived <= StreamSize

(* The buffer holds bytes that have arrived; until the response is         *)
(* complete nothing comes of them.                                         *)
Buffer ==
  /\ base + m_offset <= arrived /\ m_offset <= BUFFER_SIZE
  /\ reading => socket = "open"
  /\ m_state = "IN_WORK" => ResponseSize + dropped <= base /\ generated > 0
  /\ m_state # "IN_WORK" =>
       base = 0 /\ stored = << >> /\ m_output_queue = << >> /\ generated = 0

(* The first frame of the queue that is not written whole. *)
NextOutput == generated - Len(m_output_queue) + 1

(* What is written ends where the queue goes on, r bytes of it the request. *)
OutputAfter(r) ==
  /\ Len(m_output_queue) <= generated
  /\ \A k \in DOMAIN m_output_queue :
       /\ m_output_queue[k].id = NextOutput + k - 1
       /\ m_output_queue[k].size = SizeOfOutput(m_output_queue[k].id)
       /\ m_output_queue[k].offset < m_output_queue[k].size
       /\ k > 1 => m_output_queue[k].offset = 0
  /\ Len(written) = r + StartOf(NextOutput)
                      + (IF m_output_queue = << >> THEN 0 ELSE m_output_queue[1].offset)
  /\ \A j \in DOMAIN written :
       \/ j <= r /\ written[j] = <<0, j>>
       \/ \E id \in 1 .. generated : \E p \in 1 .. SizeOfOutput(id) :
            j = r + StartOf(id) + p /\ written[j] = <<id, p>>

Output == \E r \in 0 .. RequestSize : OutputAfter(r)

Inv ==
  /\ Typed /\ Stream /\ Buffer /\ Output
  /\ FramesInTurn /\ BacklogIsExcess /\ RoomForMore

LEMMA FrameFacts ==
  ASSUME NEW k \in Kinds, NEW a \in Nat
  PROVE  /\ FrameOf(k).size \in Nat /\ FrameOf(k).size >= 2
         /\ F!Deserialize(FrameOf(k), a) # 0 =>
              F!Deserialize(FrameOf(k), a) = FrameOf(k).size /\ FrameOf(k).size <= a
         /\ F!Deserialize(FrameOf(k), a) = 0 =>
              a < FrameOf(k).size \/ (a = 2 /\ k = "ping")
<1> DEFINE t == IF k = "ping" THEN F!PING ELSE F!TEXT
<1>1. Payload[k] \in Nat /\ (k # "ping" => Payload[k] > 0)
  BY DiffAssumption
<1>2. FrameOf(k) = F!PeerFrame(t, Payload[k])
  BY DEF FrameOf
<1> HIDE DEF t
<1> QED
  BY <1>1, <1>2, DeserializeFacts

LEMMA EndAtFacts ==
  ASSUME Typed
  PROVE  /\ Frames = 1 .. Len(sent) /\ Len(sent) \in Nat
         /\ EndAt(0) = ResponseSize
         /\ \A i \in Frames : /\ i \in Nat /\ i - 1 \in 0 .. Len(sent) /\ i \in 0 .. Len(sent)
                              /\ sent[i].kind \in Kinds /\ EndAt(i) = sent[i].end
         /\ \A i \in 0 .. Len(sent) : EndAt(i) \in Nat
<1>1. sent \in Seq([kind : Kinds, end : Nat])
  BY DEF Typed
<1>2. /\ DOMAIN sent = 1 .. Len(sent) /\ Len(sent) \in Nat
      /\ \A i \in DOMAIN sent : sent[i] \in [kind : Kinds, end : Nat]
  BY <1>1, ElementOfSeq, LenProperties
<1>3. /\ Frames = 1 .. Len(sent) /\ Len(sent) \in Nat
      /\ \A i \in Frames : sent[i].kind \in Kinds /\ sent[i].end \in Nat
  BY <1>2 DEF Frames
<1> QED
  BY <1>3, DiffAssumption DEF EndAt

LEMMA EndAtNext == \A i : EndAt(i)' = IF i = 0 THEN ResponseSize ELSE sent'[i].end
BY DEF EndAt

LEMMA EndAtPrimed ==
  ASSUME Typed', NEW i \in Frames'
  PROVE  EndAt(i)' \in Nat /\ sent'[i].kind \in Kinds
<1>1. sent' \in Seq([kind : Kinds, end : Nat])
  BY DEF Typed
<1>2. sent'[i] \in [kind : Kinds, end : Nat]
  BY <1>1, ElementOfSeq, LenProperties DEF Frames
<1> QED
  BY <1>2, EndAtNext, Sizes

(* A frame once sent stays where it is, and a new one comes behind all     *)
(* that has arrived.                                                       *)
Grown ==
  /\ \A i \in 0 .. Len(sent) : i \in 0 .. Len(sent') /\ EndAt(i)' = EndAt(i)
  /\ \A i \in Frames : /\ i \in Frames' /\ sent'[i] = sent[i]
                       /\ EndAt(i)' = EndAt(i) /\ EndAt(i - 1)' = EndAt(i - 1)
  /\ \A i \in Frames' : i \notin Frames =>
       /\ EndAt(i - 1)' >= arrived /\ EndAt(i)' > arrived
       /\ EndAt(i)' = EndAt(i - 1)' + FrameOf(sent'[i].kind).size
       /\ UNCHANGED <<responded, arrived, in_vars, out_vars, order_vars>>
  /\ \A i \in 0 .. Len(sent') : i \notin 0 .. Len(sent) =>
       i \in Frames' /\ i \notin Frames /\ i = Len(sent) + 1
  /\ sent' \in Seq([kind : Kinds, end : Nat])

LEMMA StreamGrows ==
  ASSUME Typed, Stream, Next
  PROVE  Grown
<1>0. /\ Frames = 1 .. Len(sent) /\ Len(sent) \in Nat
      /\ \A i \in 0 .. Len(sent) : EndAt(i) \in Nat
  BY EndAtFacts
<1>1. CASE sent' = sent
  BY <1>0, <1>1 DEF EndAt, Frames, Typed, Grown
<1>2. ASSUME NEW k \in Kinds, Send(k)
      PROVE  Grown
  <2>0. PICK n \in Nat : n = Len(sent)
    BY <1>0
  <2>1. FrameOf(k).size \in Nat /\ FrameOf(k).size >= 2
    BY FrameFacts
  <2>2. PICK e \in Nat : e = EndAt(n) + FrameOf(k).size
    BY <1>0, <2>0, <2>1
  <2>3. /\ responded /\ UNCHANGED <<responded, arrived, in_vars, out_vars, order_vars>>
        /\ sent' = Append(sent, [kind |-> k, end |-> e])
    BY <1>2, <2>0, <2>2 DEF Send
  <2>4. /\ Len(sent') = n + 1 /\ Frames' = 1 .. n + 1
        /\ \A i \in Frames : sent'[i] = sent[i]
        /\ sent'[n + 1] = [kind |-> k, end |-> e]
        /\ sent' \in Seq([kind : Kinds, end : Nat])
    BY <2>0, <2>3, AppendProperties DEF Typed, Frames
  <2>5. \A i \in 0 .. Len(sent) : EndAt(i)' = EndAt(i)
    <3>1. \A i \in 0 .. Len(sent) : i # 0 => i \in Frames
      BY <1>0
    <3>2. \A i \in 0 .. Len(sent) : i # 0 => sent'[i].end = sent[i].end
      BY <2>4, <3>1
    <3> QED
      BY <3>2, EndAtNext DEF EndAt
  <2>6. arrived <= EndAt(n)
    BY <2>0, <2>3 DEF Stream, StreamSize
  <2>7. \A i \in Frames' : i \notin Frames => i = n + 1
    BY <1>0, <2>0, <2>4
  <2>8. EndAt(n + 1)' = e /\ sent'[n + 1].kind = k
    BY <1>0, <2>0, <2>4, EndAtNext
  <2>9. EndAt(n)' >= arrived /\ EndAt(n + 1)' > arrived
    <3>1. EndAt(n)' = EndAt(n) /\ EndAt(n) \in Nat
      BY <1>0, <2>0, <2>5
    <3> QED
      BY <2>1, <2>2, <2>6, <2>8, <3>1 DEF Typed
  <2>10. \A i \in Frames : i \in Frames' /\ EndAt(i)' = EndAt(i) /\ EndAt(i - 1)' = EndAt(i - 1)
    BY <1>0, <2>0, <2>4, <2>5
  <2>11. \A i \in 0 .. Len(sent') : i \notin 0 .. Len(sent) =>
           i \in Frames' /\ i \notin Frames /\ i = Len(sent) + 1
    BY <1>0, <2>0, <2>4
  <2>12. \A i \in 0 .. Len(sent) : i \in 0 .. Len(sent')
    BY <1>0, <2>0, <2>4
  <2>13. ASSUME NEW i \in Frames', i \notin Frames
         PROVE  /\ EndAt(i - 1)' >= arrived /\ EndAt(i)' > arrived
                /\ EndAt(i)' = EndAt(i - 1)' + FrameOf(sent'[i].kind).size
    <3>1. i = n + 1 /\ i - 1 = n
      BY <1>0, <2>0, <2>7, <2>13
    <3> QED
      BY <1>0, <2>0, <2>2, <2>5, <2>8, <2>9, <3>1
  <2> QED
    BY <2>3, <2>4, <2>5, <2>10, <2>11, <2>12, <2>13 DEF Grown
<1>3. sent' = sent \/ \E k \in Kinds : Send(k)
  BY DEF Next, Respond, Arrive, TakeOrders, OnRead, OnWrite, StartRead, EndRead,
     ReadResponseInPieces, ReadResponse, Working, Takes, NoFrameYet, TakePing, TakeNothing,
     TakeOrder, TakeBad, TakeGarbage, WriteHandshake, WriteFrame, server_vars
<1> QED
  BY <1>1, <1>2, <1>3

LEMMA StreamStays ==
  ASSUME Typed, Stream, Next
  PROVE  Stream'
<1>0. /\ Frames = 1 .. Len(sent) /\ Len(sent) \in Nat
      /\ \A i \in 0 .. Len(sent) : EndAt(i) \in Nat
  BY EndAtFacts
<1>1. \A i \in Frames' : EndAt(i)' = EndAt(i - 1)' + FrameOf(sent'[i].kind).size
  BY StreamGrows DEF Stream, Grown
<1>2. /\ Frames' = 1 .. Len(sent') /\ Len(sent') \in Nat
      /\ \A i \in Frames' : EndAt(i)' \in Nat
      /\ \A i \in Frames' : FrameOf(sent'[i].kind).size \in Nat /\ FrameOf(sent'[i].kind).size >= 2
  <2>1. sent' \in Seq([kind : Kinds, end : Nat])
    BY StreamGrows DEF Grown
  <2>2. /\ Frames' = 1 .. Len(sent') /\ Len(sent') \in Nat
        /\ \A i \in Frames' : sent'[i].kind \in Kinds /\ EndAt(i)' \in Nat
    <3>1. /\ DOMAIN sent' = 1 .. Len(sent') /\ Len(sent') \in Nat
          /\ \A i \in DOMAIN sent' : sent'[i] \in [kind : Kinds, end : Nat]
      BY <2>1, ElementOfSeq, LenProperties
    <3> QED
      BY <3>1, EndAtNext DEF Frames
  <2> QED
    BY <2>2, FrameFacts
<1>3. /\ \A i, j \in 0 .. Len(sent) : i < j => EndAt(i) < EndAt(j)
      /\ \A i \in 0 .. Len(sent) : EndAt(i)' = EndAt(i)
      /\ \A i \in 0 .. Len(sent') : i \notin 0 .. Len(sent) =>
           i \in Frames' /\ i \notin Frames /\ i = Len(sent) + 1
  BY StreamGrows DEF Stream, Grown
<1>4. ASSUME NEW i \in 0 .. Len(sent'), NEW j \in 0 .. Len(sent'), i < j
      PROVE  EndAt(i)' < EndAt(j)'
  <2>1. CASE j \in 0 .. Len(sent)
    <3>1. i \in 0 .. Len(sent)
      BY <1>0, <1>4, <2>1
    <3>2. EndAt(i) < EndAt(j)
      BY <1>3, <1>4, <2>1, <3>1
    <3> QED
      BY <1>3, <2>1, <3>1, <3>2
  <2>2. CASE j \notin 0 .. Len(sent)
    <3>1. j \in Frames' /\ j \notin Frames /\ j = Len(sent) + 1
      BY <1>3, <2>2
    <3>2. i \in 0 .. Len(sent) /\ j - 1 \in 0 .. Len(sent) /\ i <= j - 1
      BY <1>0, <1>4, <3>1
    <3>3. EndAt(i) <= EndAt(j - 1)
      <4>1. i = j - 1 \/ i < j - 1
        BY <1>0, <3>2
      <4> QED
        BY <1>0, <1>3, <3>2, <4>1
    <3>4. EndAt(i)' = EndAt(i) /\ EndAt(j - 1)' = EndAt(j - 1)
      BY <1>3, <3>2
    <3>5. EndAt(i) \in Nat /\ EndAt(j - 1) \in Nat
      BY <1>0, <3>2
    <3> QED
      BY <1>1, <1>2, <3>1, <3>3, <3>4, <3>5
  <2> QED
    BY <2>1, <2>2
<1>5. PICK n \in Nat : n = Len(sent')
  BY <1>2
<1>6. /\ arrived \in Nat /\ arrived <= StreamSize
      /\ EndAt(Len(sent)) \in Nat
      /\ StreamSize' = IF responded' THEN EndAt(n)' ELSE 0
  <2>1. StreamSize' = IF responded' THEN EndAt(n)' ELSE 0
    BY <1>5, EndAtNext DEF StreamSize, EndAt
  <2> QED
    BY <1>0, <2>1 DEF Stream, Typed
<1>7. arrived' <= StreamSize'
  <2>1. CASE UNCHANGED <<sent, responded, arrived>>
    <3>1. StreamSize' = StreamSize
      BY <2>1 DEF StreamSize, EndAt
    <3> QED
      BY <1>6, <2>1, <3>1
  <2>2. CASE Respond
    <3>1. sent' = sent /\ arrived' = arrived /\ StreamSize = 0
      BY <2>2 DEF Respond, StreamSize
    <3>2. EndAt(n)' = EndAt(Len(sent))
      BY <1>5, <3>1, EndAtNext DEF EndAt
    <3> QED
      BY <1>2, <1>6, <3>1, <3>2
  <2>3. CASE Arrive
    <3>1. arrived' <= StreamSize /\ UNCHANGED <<sent, responded>>
      BY <1>6, <2>3 DEF Arrive
    <3>2. StreamSize' = StreamSize
      BY <3>1 DEF StreamSize, EndAt
    <3> QED
      BY <3>1, <3>2
  <2>4. ASSUME NEW k \in Kinds, Send(k)
        PROVE  arrived' <= StreamSize'
    <3>1. n \in Frames' /\ n \notin Frames /\ responded'
      BY <1>0, <1>2, <1>5, <2>4, AppendProperties DEF Send, Typed
    <3>2. arrived' = arrived /\ EndAt(n)' > arrived
      <4>1. \A i \in Frames' : i \notin Frames => arrived' = arrived /\ EndAt(i)' > arrived
        BY StreamGrows DEF Grown
      <4> QED
        BY <3>1, <4>1
    <3> QED
      BY <1>2, <1>6, <3>1, <3>2
  <2>5. \/ UNCHANGED <<sent, responded, arrived>>
        \/ Respond \/ Arrive \/ \E k \in Kinds : Send(k)
    BY DEF Next, TakeOrders, OnRead, OnWrite, StartRead, EndRead,
       ReadResponseInPieces, ReadResponse, Working, Takes, NoFrameYet, TakePing, TakeNothing,
       TakeOrder, TakeBad, TakeGarbage, WriteHandshake, WriteFrame, server_vars
  <2> QED
    BY <2>1, <2>2, <2>3, <2>4, <2>5
<1> QED
  BY <1>1, <1>4, <1>7 DEF Stream

-------------------------------------------------------------------------------
(* Reading. *)

LEMMA ReadFacts ==
  ASSUME Typed, Buffer
  PROVE  /\ ReadSize \in Nat /\ Got \in Nat /\ Got = m_offset + ReadSize
         /\ base + Got <= arrived /\ Got <= BUFFER_SIZE
<1> DEFINE a == arrived - (base + m_offset)
           b == BUFFER_SIZE - m_offset
<1>1. a \in Nat /\ b \in Nat /\ m_offset \in Nat /\ base \in Nat
  BY DiffAssumption DEF Typed, Buffer
<1>2. ReadSize \in {a, b} /\ ReadSize <= a /\ ReadSize <= b
  <2> HIDE DEF a, b
  <2>1. Min({a, b}) \in {a, b} /\ Min({a, b}) <= a /\ Min({a, b}) <= b
    BY <1>1, MinOfTwo
  <2> QED
    BY <2>1 DEF ReadSize, a, b
<1>3. ReadSize \in Nat
  BY <1>1, <1>2
<1> QED
  BY <1>1, <1>2, <1>3, DiffAssumption DEF Got, Typed

LEMMA ExcessTyped ==
  ASSUME Typed
  PROVE  Excess \in Nat
<1> DEFINE ends == {i \in Frames : EndAt(i) > base + m_offset /\ EndAt(i) <= base + Got}
<1>1. IsFiniteSet(ends)
  <2>1. IsFiniteSet(Frames)
    BY EndAtFacts, FS_Interval
  <2> QED
    BY <2>1, FS_Subset
<1>2. Excess = IF ends = {} THEN 0 ELSE Cardinality(ends) - 1
  BY DEF Excess
<1> HIDE DEF ends
<1>3. Cardinality(ends) \in Nat /\ (ends # {} => Cardinality(ends) # 0)
  BY <1>1, FS_CardinalityType, FS_EmptySet
<1> QED
  BY <1>2, <1>3

LEMMA TakesFacts ==
  ASSUME Typed, Stream, Buffer, NEW i \in Frames, Takes(i)
  PROVE  /\ FrameEnd(i) \in Nat /\ FrameEnd(i) >= 2 /\ FrameEnd(i) <= Got
         /\ base + FrameEnd(i) = EndAt(i)
<1>1. sent[i].kind \in Kinds /\ Got \in Nat
  BY EndAtFacts, ReadFacts
<1>2. FrameEnd(i) # 0 /\ EndAt(i - 1) = base
  BY DEF Takes, InFront
<1>3. FrameEnd(i) = FrameOf(sent[i].kind).size
  BY <1>1, <1>2, FrameFacts DEF FrameEnd
<1>4. EndAt(i) = EndAt(i - 1) + FrameOf(sent[i].kind).size
  BY DEF Stream
<1> QED
  BY <1>1, <1>2, <1>3, <1>4, FrameFacts DEF FrameEnd

(* Frame i is in front and is not complete. *)
LEMMA WaitsFacts ==
  ASSUME Typed, Stream, Buffer, NEW i \in Frames, InFront(i), FrameEnd(i) = 0
  PROVE  EndAt(i) > base + Got \/ (Got = 2 /\ sent[i].kind = "ping")
<1>1. sent[i].kind \in Kinds /\ Got \in Nat /\ base \in Nat
  BY EndAtFacts, ReadFacts DEF Typed
<1>2. EndAt(i) = base + FrameOf(sent[i].kind).size
  BY DEF Stream, InFront
<1>3. Got < FrameOf(sent[i].kind).size \/ (Got = 2 /\ sent[i].kind = "ping")
  BY <1>1, FrameFacts DEF FrameEnd
<1>4. FrameOf(sent[i].kind).size \in Nat
  BY <1>1, FrameFacts
<1> QED
  BY <1>1, <1>2, <1>3, <1>4

(* What the actions that look at the buffer have in common: either they    *)
(* leave the bytes where they are, or take some from the front.            *)
LEMMA WorkFacts ==
  ASSUME Typed, Stream, Buffer,
         NoFrameYet \/ TakePing \/ TakeNothing \/ TakeOrder \/ TakeBad \/ TakeGarbage
  PROVE  /\ reading /\ m_state = "IN_WORK" /\ ReadSize > 0
         /\ excess' = excess + Excess /\ UNCHANGED <<server_vars, m_state, dropped, written>>
         /\ \/ base' = base /\ m_offset' = Got
            \/ \E end \in 2 .. Got : base' = base + end /\ m_offset' = Got - end
         /\ \/ UNCHANGED <<reading, socket>>
            \/ reading' = FALSE /\ socket' \in {"closed", "aborted"}
         /\ UNCHANGED <<m_output_queue, generated>> \/ Generate(2)
<1>1. CASE NoFrameYet
  BY <1>1 DEF NoFrameYet, Working, out_vars
<1>2. CASE TakePing
  BY <1>2, TakesFacts DEF TakePing, Takes, Working, Generate, Shift
<1>3. CASE TakeNothing
  BY <1>3, TakesFacts DEF TakeNothing, Takes, Working, Shift, out_vars
<1>4. CASE TakeOrder
  <2>1. PICK i \in Frames : Takes(i) /\ UNCHANGED out_vars
          /\ \/ Shift(FrameEnd(i)) /\ UNCHANGED <<reading, socket>>
             \/ socket' = "closed" /\ reading' = FALSE /\ UNCHANGED base /\ m_offset' = Got
    BY <1>4 DEF TakeOrder
  <2>2. Shift(FrameEnd(i)) => \E end \in 2 .. Got : base' = base + end /\ m_offset' = Got - end
    BY <2>1, TakesFacts, ReadFacts DEF Shift
  <2> QED
    BY <2>1, <2>2 DEF Takes, Working, out_vars
<1>5. CASE TakeBad
  BY <1>5, TakesFacts DEF TakeBad, Takes, Working, Shift, out_vars
<1>6. CASE TakeGarbage
  BY <1>6 DEF TakeGarbage, Working, Shift, Generate, out_vars
<1> QED
  BY <1>1, <1>2, <1>3, <1>4, <1>5, <1>6

Work == NoFrameYet \/ TakePing \/ TakeNothing \/ TakeOrder \/ TakeBad \/ TakeGarbage

LEMMA NextCases ==
  Next => \/ Respond \/ (\E k \in Kinds : Send(k)) \/ Arrive \/ TakeOrders
          \/ StartRead \/ EndRead \/ ReadResponseInPieces \/ ReadResponse
          \/ Work \/ WriteHandshake \/ WriteFrame
BY DEF Next, OnRead, OnWrite, Work

LEMMA BufferStays ==
  ASSUME Typed, Stream, Buffer, Next
  PROVE  Buffer'
<1>1. CASE Respond \/ (\E k \in Kinds : Send(k)) \/ TakeOrders \/ StartRead \/ EndRead
  <2>1. /\ UNCHANGED <<arrived, m_state, base, m_offset, socket, dropped, out_vars, stored>>
        /\ reading' => reading \/ socket = "open"
    <3>1. CASE Respond \/ \E k \in Kinds : Send(k)
      <4>1. UNCHANGED <<arrived, m_state, base, m_offset, socket, reading, dropped, out_vars, stored>>
        BY <3>1 DEF Respond, Send, in_vars, order_vars
      <4> QED
        BY <4>1
    <3>2. CASE TakeOrders \/ StartRead \/ EndRead
      BY <3>2 DEF TakeOrders, StartRead, EndRead, server_vars, in_vars, order_vars
    <3> QED
      BY <1>1, <3>1, <3>2
  <2> QED
    BY <2>1 DEF Buffer, out_vars
<1>2. CASE Arrive
  <2>1. arrived' \in Int /\ arrived' > arrived /\ UNCHANGED <<in_vars, out_vars, order_vars>>
    BY <1>2 DEF Arrive, Typed, StreamSize
  <2> QED
    BY <2>1 DEF Buffer, Typed, in_vars, out_vars, order_vars
<1>3. CASE ReadResponseInPieces
  BY <1>3, ReadFacts DEF ReadResponseInPieces, Buffer, server_vars, out_vars, order_vars
<1>4. CASE ReadResponse
  <2>1. base = 0 /\ base + m_offset <= arrived
    BY <1>4 DEF ReadResponse, Buffer
  <2>2. /\ m_state' = "IN_WORK" /\ base' = Got /\ dropped' = Got - ResponseSize
        /\ m_offset' = 0 /\ UNCHANGED <<arrived, reading, socket>>
    BY <1>4, <2>1, ReadFacts DEF ReadResponse, Typed, server_vars, Got
  <2> QED
    <3>1. Got \in Nat /\ Got <= arrived
      BY <2>1, ReadFacts
    <3>2. base' + m_offset' <= arrived' /\ m_offset' <= BUFFER_SIZE
      BY <2>2, <3>1, Sizes
    <3>3. ResponseSize + dropped' <= base'
      BY <2>2, <3>1, Sizes
    <3>4. generated' > 0
      <4>1. Generate(2 + SubscribeSize)
        BY <1>4 DEF ReadResponse
      <4> QED
        BY <4>1 DEF Generate, Typed
    <3>5. reading => socket = "open"
      BY DEF Buffer
    <3>6. reading' => socket' = "open"
      BY <2>2, <3>5
    <3> QED
      BY <2>2, <3>2, <3>3, <3>4, <3>6 DEF Buffer
<1>5. CASE Work
  <2>1. /\ reading /\ m_state = "IN_WORK" /\ UNCHANGED <<arrived, m_state, dropped>>
        /\ \/ base' = base /\ m_offset' = Got
           \/ \E end \in 2 .. Got : base' = base + end /\ m_offset' = Got - end
        /\ \/ UNCHANGED <<reading, socket>>
           \/ reading' = FALSE /\ socket' \in {"closed", "aborted"}
    BY <1>5, WorkFacts DEF Work, server_vars
  <2>2. base' + m_offset' <= arrived' /\ m_offset' <= BUFFER_SIZE /\ base' >= base
    <3>1. Got \in Nat /\ base + Got <= arrived /\ Got <= BUFFER_SIZE
          /\ base \in Nat /\ arrived \in Nat /\ BUFFER_SIZE \in Nat
      BY ReadFacts, Sizes DEF Typed
    <3>2. CASE base' = base /\ m_offset' = Got
      BY <2>1, <3>1, <3>2
    <3>3. ASSUME NEW end \in 2 .. Got, base' = base + end, m_offset' = Got - end
          PROVE  base' + m_offset' <= arrived' /\ m_offset' <= BUFFER_SIZE /\ base' >= base
      BY <2>1, <3>1, <3>3
    <3> QED
      BY <2>1, <3>2, <3>3
  <2>3. ResponseSize + dropped' <= base'
    <3>1. ResponseSize + dropped <= base /\ base' \in Int
      BY <2>1, ReadFacts DEF Buffer, Typed
    <3> QED
      BY <2>1, <2>2, <3>1, Sizes DEF Typed
  <2>4. generated' > 0
    <3>1. UNCHANGED generated \/ generated' = generated + 1
      BY <1>5, WorkFacts DEF Work, Generate
    <3> QED
      BY <2>1, <3>1 DEF Buffer, Typed
  <2> QED
    BY <2>1, <2>2, <2>3, <2>4 DEF Buffer
<1>6. CASE WriteHandshake
  BY <1>6 DEF WriteHandshake, Buffer, server_vars, order_vars
<1>7. CASE WriteFrame
  BY <1>7 DEF WriteFrame, Buffer, server_vars, in_vars, order_vars
<1> QED
  BY <1>1, <1>2, <1>3, <1>4, <1>5, <1>6, <1>7, NextCases

LEMMA BytesTyped ==
  ASSUME NEW id \in Nat, NEW from \in Nat, NEW n \in Nat
  PROVE  /\ Bytes(id, from, n) \in Seq(Nat \X Nat) /\ Len(Bytes(id, from, n)) = n
         /\ \A j \in 1 .. n : Bytes(id, from, n)[j] = <<id, from + j>>
BY DEF Bytes

LEMMA GenerateFacts ==
  ASSUME Typed, NEW size \in Nat, Generate(size)
  PROVE  /\ m_output_queue' \in Seq(OutputFrame) /\ generated' = generated + 1
         /\ written' = written /\ Len(m_output_queue') = Len(m_output_queue) + 1
         /\ DOMAIN m_output_queue = 1 .. Len(m_output_queue) /\ Len(m_output_queue) \in Nat
         /\ DOMAIN m_output_queue' = 1 .. Len(m_output_queue) + 1
         /\ \A k \in DOMAIN m_output_queue : m_output_queue'[k] = m_output_queue[k]
         /\ m_output_queue'[Len(m_output_queue) + 1] =
              [id |-> generated + 1, size |-> size, offset |-> 0]
<1>1. [id |-> generated + 1, size |-> size, offset |-> 0] \in OutputFrame
  BY DEF Typed, OutputFrame
<1>2. m_output_queue \in Seq(OutputFrame)
  BY DEF Typed
<1>3. m_output_queue' = Append(m_output_queue, [id |-> generated + 1, size |-> size, offset |-> 0])
  BY DEF Generate, Generated
<1>4. generated' = generated + 1 /\ written' = written
  BY DEF Generate
<1> HIDE DEF OutputFrame
<1> QED
  BY <1>1, <1>2, <1>3, <1>4, AppendProperties, LenProperties

(* What a write does to the queue and to the wire.                         *)
LEMMA WriteFacts ==
  ASSUME Typed, WriteFrame
  PROVE  \E n \in Nat \ {0} :
           LET f == m_output_queue[1]
           IN  /\ m_output_queue # << >> /\ Len(m_output_queue) \in Nat \ {0}
               /\ f \in OutputFrame /\ n <= f.size - f.offset
               /\ written' = written \o Bytes(f.id, f.offset, n)
               /\ m_output_queue' \in Seq(OutputFrame)
               /\ \/ /\ f.offset + n = f.size
                     /\ Len(m_output_queue') = Len(m_output_queue) - 1
                     /\ \A k \in 1 .. Len(m_output_queue) - 1 :
                          m_output_queue'[k] = m_output_queue[k + 1]
                  \/ /\ f.offset + n # f.size
                     /\ Len(m_output_queue') = Len(m_output_queue)
                     /\ m_output_queue'[1] = [f EXCEPT !.offset = @ + n]
                     /\ \A k \in 2 .. Len(m_output_queue) :
                          m_output_queue'[k] = m_output_queue[k]
               /\ UNCHANGED <<server_vars, in_vars, generated, order_vars>>
<1> DEFINE f == Head(m_output_queue)
<1>1. /\ m_output_queue # << >> /\ m_output_queue \in Seq(OutputFrame)
      /\ UNCHANGED <<server_vars, in_vars, generated, order_vars>>
  BY DEF WriteFrame, Typed
<1>2. PICK n \in 1 .. f.size - f.offset :
        /\ written' = written \o Bytes(f.id, f.offset, n)
        /\ m_output_queue' = IF f.offset + n = f.size THEN Tail(m_output_queue)
                             ELSE <<[f EXCEPT !.offset = @ + n]>> \o Tail(m_output_queue)
  BY DEF WriteFrame
<1>3. /\ f = m_output_queue[1] /\ f \in OutputFrame
      /\ Tail(m_output_queue) \in Seq(OutputFrame)
      /\ Len(m_output_queue) \in Nat \ {0}
      /\ Len(Tail(m_output_queue)) = Len(m_output_queue) - 1
      /\ \A k \in 1 .. Len(m_output_queue) - 1 : Tail(m_output_queue)[k] = m_output_queue[k + 1]
  <2> HIDE DEF OutputFrame
  <2> QED
    BY <1>1, HeadTailProperties, EmptySeq, LenProperties
<1>4. n \in Nat \ {0} /\ n <= f.size - f.offset
  BY <1>2, <1>3 DEF OutputFrame
<1>5. CASE f.offset + n = f.size
  BY <1>1, <1>2, <1>3, <1>4, <1>5
<1>6. CASE f.offset + n # f.size
  <2> DEFINE g == [f EXCEPT !.offset = @ + n]
  <2>1. g \in OutputFrame
    <3>1. f.offset \in Nat /\ f.offset + n \in Nat
      BY <1>3, <1>4 DEF OutputFrame
    <3> QED
      BY <1>3, <3>1 DEF OutputFrame
  <2>2. m_output_queue' = <<g>> \o Tail(m_output_queue)
    BY <1>2, <1>6
  <2> HIDE DEF g, OutputFrame
  <2>3. /\ m_output_queue' \in Seq(OutputFrame)
        /\ Len(m_output_queue') = Len(m_output_queue)
        /\ m_output_queue'[1] = g
        /\ \A k \in 2 .. Len(m_output_queue) : m_output_queue'[k] = m_output_queue[k]
    <3>1. <<g>> \in Seq(OutputFrame) /\ Len(<<g>>) = 1 /\ <<g>>[1] = g
      BY <2>1
    <3>2. /\ m_output_queue' \in Seq(OutputFrame)
          /\ Len(m_output_queue') = 1 + Len(Tail(m_output_queue))
          /\ \A k \in 1 .. 1 + Len(Tail(m_output_queue)) :
               m_output_queue'[k] = IF k <= 1 THEN <<g>>[k] ELSE Tail(m_output_queue)[k - 1]
      BY <1>3, <2>2, <3>1, ConcatProperties
    <3> QED
      BY <1>3, <3>1, <3>2
  <2> QED
    BY <1>1, <1>2, <1>3, <1>4, <1>6, <2>3 DEF g
<1> QED
  BY <1>5, <1>6

LEMMA TypedStays ==
  ASSUME Typed, Stream, Buffer, Next
  PROVE  Typed'
<1>0. sent' \in Seq([kind : Kinds, end : Nat])
  BY StreamGrows DEF Grown
<1>1. CASE Respond \/ (\E k \in Kinds : Send(k)) \/ TakeOrders \/ StartRead \/ EndRead
  BY <1>0, <1>1, DiffAssumption DEF Respond, Send, TakeOrders, StartRead, EndRead, Typed,
     server_vars, in_vars, out_vars, order_vars
<1>2. CASE Arrive
  <2>1. arrived' \in Nat /\ UNCHANGED <<sent, responded, in_vars, out_vars, order_vars>>
    BY <1>2 DEF Arrive, Typed, StreamSize
  <2> QED
    BY <1>0, <2>1 DEF Typed, in_vars, out_vars, order_vars
<1>3. CASE ReadResponseInPieces
  BY <1>0, <1>3, ReadFacts DEF ReadResponseInPieces, Typed, server_vars, out_vars, order_vars
<1>4. CASE ReadResponse
  <2>1. /\ Generate(2 + SubscribeSize) /\ 2 + SubscribeSize \in Nat
        /\ m_state' = "IN_WORK" /\ base' \in Nat /\ dropped' \in Nat
        /\ m_offset' = 0 /\ UNCHANGED <<server_vars, reading, socket, excess, order_vars>>
    <3>1. /\ Generate(2 + SubscribeSize) /\ m_state' = "IN_WORK" /\ base' = base + Got
          /\ Got >= ResponseSize /\ dropped' = Got - ResponseSize
          /\ m_offset' = 0 /\ UNCHANGED <<server_vars, reading, socket, excess, order_vars>>
      <4>1. Got = m_offset + ReadSize /\ base \in Nat /\ m_offset \in Nat /\ ReadSize \in Nat
        BY ReadFacts DEF Typed
      <4> QED
        BY <1>4, <4>1 DEF ReadResponse
    <3>2. Got \in Nat /\ base \in Nat
      BY ReadFacts DEF Typed
    <3> QED
      BY <3>1, <3>2, Sizes
  <2>2. m_output_queue' \in Seq(OutputFrame) /\ generated' = generated + 1 /\ written' = written
    BY <2>1, GenerateFacts
  <2> QED
    BY <1>0, <2>1, <2>2 DEF Typed, server_vars, order_vars
<1>5. CASE Work
  <2>1. /\ UNCHANGED <<server_vars, m_state, dropped, written>>
        /\ base' \in Nat /\ m_offset' \in Nat /\ excess' \in Nat
        /\ reading' \in BOOLEAN /\ socket' \in {"open", "closed", "aborted"}
    <3>1. /\ excess' = excess + Excess /\ UNCHANGED <<server_vars, m_state, dropped, written>>
          /\ \/ base' = base /\ m_offset' = Got
             \/ \E end \in 2 .. Got : base' = base + end /\ m_offset' = Got - end
          /\ \/ UNCHANGED <<reading, socket>>
             \/ reading' = FALSE /\ socket' \in {"closed", "aborted"}
      BY <1>5, WorkFacts DEF Work
    <3>2. excess' \in Nat
      BY <3>1, ExcessTyped DEF Typed
    <3>3. Got \in Nat /\ base \in Nat /\ reading \in BOOLEAN
          /\ socket \in {"open", "closed", "aborted"}
      BY ReadFacts DEF Typed
    <3>4. base' \in Nat /\ m_offset' \in Nat
      BY <3>1, <3>3
    <3> QED
      BY <3>1, <3>2, <3>3, <3>4
  <2>2. m_output_queue' \in Seq(OutputFrame) /\ generated' \in Nat
    <3>1. UNCHANGED <<m_output_queue, generated>> \/ Generate(2)
      BY <1>5, WorkFacts DEF Work
    <3>2. ASSUME Generate(2) PROVE m_output_queue' \in Seq(OutputFrame) /\ generated' \in Nat
      <4>1. m_output_queue' \in Seq(OutputFrame) /\ generated' = generated + 1
        BY <3>2, GenerateFacts
      <4> QED
        BY <4>1 DEF Typed
    <3> QED
      BY <3>1, <3>2 DEF Typed
  <2>3. stored' \in Seq(Nat \X Nat) /\ free' \in Nat
    <3>1. CASE UNCHANGED order_vars
      BY <3>1 DEF order_vars, Typed
    <3>2. ASSUME NEW i \in Frames, NEW n \in Nat, n <= free, StoreLevels(i, n)
          PROVE  stored' \in Seq(Nat \X Nat) /\ free' \in Nat
      <4>1. i \in Nat
        BY EndAtFacts
      <4>2. [l \in 1 .. n |-> <<i, l>>] \in Seq(Nat \X Nat)
        BY <3>2, <4>1
      <4> QED
        BY <3>2, <4>2, ConcatProperties DEF StoreLevels, Typed
    <3>3. UNCHANGED order_vars
            \/ \E i \in Frames, n \in Nat : n <= free /\ StoreLevels(i, n)
      <4>1. CASE TakeOrder
        <5>1. \E i \in Frames : \/ Levels <= free /\ StoreLevels(i, Levels)
                               \/ \E n \in 0 .. Levels - 1 : n <= free /\ StoreLevels(i, n)
          BY <1>0, <4>1, DiffAssumption DEF TakeOrder, Typed
        <5>2. Levels \in Nat /\ 0 .. Levels - 1 \subseteq Nat
          BY DiffAssumption
        <5> QED
          BY <5>1, <5>2
      <4>2. CASE NoFrameYet \/ TakePing \/ TakeNothing \/ TakeBad \/ TakeGarbage
        BY <4>2 DEF NoFrameYet, TakePing, TakeNothing, TakeBad, TakeGarbage
      <4> QED
        BY <1>5, <4>1, <4>2 DEF Work
    <3> QED
      BY <3>1, <3>2, <3>3
  <2> QED
    BY <1>0, <2>1, <2>2, <2>3 DEF Typed, server_vars
<1>6. CASE WriteHandshake
  <2>1. PICK n \in Nat : written' = Bytes(0, 0, n)
    BY <1>6, DiffAssumption DEF WriteHandshake
  <2> QED
    BY <1>0, <1>6, <2>1, BytesTyped DEF WriteHandshake, Typed, server_vars, order_vars
<1>7. CASE WriteFrame
  <2>1. PICK n \in Nat \ {0} :
          /\ m_output_queue[1] \in OutputFrame
          /\ written' = written \o Bytes(m_output_queue[1].id, m_output_queue[1].offset, n)
          /\ m_output_queue' \in Seq(OutputFrame)
          /\ UNCHANGED <<server_vars, in_vars, generated, order_vars>>
    BY <1>7, WriteFacts
  <2>2. written' \in Seq(Nat \X Nat)
    BY <2>1, BytesTyped, ConcatProperties DEF Typed, OutputFrame
  <2> QED
    BY <1>0, <2>1, <2>2 DEF Typed, server_vars, in_vars, order_vars
<1> QED
  BY <1>1, <1>2, <1>3, <1>4, <1>5, <1>6, <1>7, NextCases

-------------------------------------------------------------------------------
(* Writing. *)

LEMMA NextStart ==
  ASSUME NEW id \in Nat \ {0}
  PROVE  /\ StartOf(id) \in Nat /\ SizeOfOutput(id) \in Nat /\ SizeOfOutput(id) >= 2
         /\ StartOf(id + 1) = StartOf(id) + SizeOfOutput(id)
<1>1. CASE id = 1
  BY <1>1, Sizes DEF StartOf, SizeOfOutput
<1>2. CASE id # 1
  <2>1. PICK d \in Nat : id = d + 2
    BY <1>2
  <2>2. StartOf(id) = 2 + SubscribeSize + 2 * d /\ SizeOfOutput(id) = 2
    BY <1>2, <2>1 DEF StartOf, SizeOfOutput
  <2>3. StartOf(id + 1) = 2 + SubscribeSize + 2 * (d + 1)
    BY <1>2, <2>1 DEF StartOf
  <2> QED
    BY <2>2, <2>3, Sizes
<1> QED
  BY <1>1, <1>2

LEMMA OutputQueued ==
  ASSUME Typed, NEW r \in Nat, OutputAfter(r),
         Generate(SizeOfOutput(generated + 1))
  PROVE  OutputAfter(r)'
<1> DEFINE q == m_output_queue
           L == Len(m_output_queue)
<1>1. generated \in Nat /\ generated + 1 \in Nat \ {0}
  BY DEF Typed
<1>2. SizeOfOutput(generated + 1) \in Nat /\ SizeOfOutput(generated + 1) >= 2
  BY <1>1, NextStart
<1>3. /\ generated' = generated + 1 /\ written' = written
      /\ Len(q') = L + 1 /\ L \in Nat /\ DOMAIN q = 1 .. L /\ DOMAIN q' = 1 .. L + 1
      /\ \A k \in DOMAIN q : q'[k] = q[k]
      /\ q'[L + 1] = [id |-> generated + 1, size |-> SizeOfOutput(generated + 1), offset |-> 0]
  BY <1>2, GenerateFacts
<1>4. /\ L <= generated
      /\ \A k \in 1 .. L : /\ q[k].id = NextOutput + k - 1
                           /\ q[k].size = SizeOfOutput(q[k].id)
                           /\ q[k].offset < q[k].size
                           /\ k > 1 => q[k].offset = 0
      /\ Len(written) = r + StartOf(NextOutput) + (IF q = << >> THEN 0 ELSE q[1].offset)
  BY <1>3 DEF OutputAfter
<1>5. NextOutput' = NextOutput /\ NextOutput = generated - L + 1
  BY <1>1, <1>3 DEF NextOutput
<1>6. Len(q') <= generated'
  BY <1>1, <1>3, <1>4
<1>7. ASSUME NEW k \in DOMAIN q'
      PROVE  /\ q'[k].id = NextOutput' + k - 1
             /\ q'[k].size = SizeOfOutput(q'[k].id)
             /\ q'[k].offset < q'[k].size
             /\ k > 1 => q'[k].offset = 0
  <2>1. CASE k \in 1 .. L
    BY <1>3, <1>4, <1>5, <2>1
  <2>2. CASE k = L + 1
    BY <1>1, <1>2, <1>3, <1>5, <2>2
  <2> QED
    BY <1>3, <2>1, <2>2
<1>8. (IF q = << >> THEN 0 ELSE q[1].offset) = IF q' = << >> THEN 0 ELSE q'[1].offset
  <2>1. q' # << >>
    BY <1>3
  <2>2. CASE q = << >>
    BY <1>3, <2>1, <2>2
  <2>3. CASE q # << >>
    <3>1. 1 \in 1 .. L
      BY <1>3, <2>3, EmptySeq DEF Typed
    <3> QED
      BY <1>3, <2>1, <2>3, <3>1
  <2> QED
    BY <2>2, <2>3
<1>9. StartOf(NextOutput') = StartOf(NextOutput)
  BY <1>5
<1>10. \A j \in DOMAIN written' :
        \/ j <= r /\ written'[j] = <<0, j>>
        \/ \E id \in 1 .. generated' : \E p \in 1 .. SizeOfOutput(id) :
             j = r + StartOf(id) + p /\ written'[j] = <<id, p>>
  <2>1. 1 .. generated \subseteq 1 .. generated'
    BY <1>1, <1>3
  <2> QED
    BY <1>3, <2>1 DEF OutputAfter
<1>11. Len(written') = r + StartOf(NextOutput') + (IF q' = << >> THEN 0 ELSE q'[1].offset)
  BY <1>3, <1>4, <1>8, <1>9
<1> QED
  BY <1>6, <1>7, <1>10, <1>11 DEF OutputAfter, StartOf, SizeOfOutput

LEMMA OutputWritten ==
  ASSUME Typed, NEW r \in Nat, OutputAfter(r), WriteFrame
  PROVE  OutputAfter(r)'
<1> DEFINE q == m_output_queue
           f == m_output_queue[1]
<1>1. PICK n \in Nat \ {0} :
        /\ q # << >> /\ Len(q) \in Nat \ {0} /\ f \in OutputFrame /\ n <= f.size - f.offset
        /\ written' = written \o Bytes(f.id, f.offset, n)
        /\ q' \in Seq(OutputFrame)
        /\ \/ /\ f.offset + n = f.size /\ Len(q') = Len(q) - 1
              /\ \A k \in 1 .. Len(q) - 1 : q'[k] = q[k + 1]
           \/ /\ f.offset + n # f.size /\ Len(q') = Len(q)
              /\ q'[1] = [f EXCEPT !.offset = @ + n]
              /\ \A k \in 2 .. Len(q) : q'[k] = q[k]
        /\ generated' = generated
  BY WriteFacts
<1>2. PICK d \in Nat, off \in Nat, size \in Nat, L \in Nat \ {0}, w \in Nat, g \in Nat :
        /\ d = f.id /\ off = f.offset /\ size = f.size
        /\ L = Len(q) /\ w = Len(written) /\ g = generated
  <2>1. f.id \in Nat /\ f.offset \in Nat /\ f.size \in Nat /\ Len(q) \in Nat \ {0}
    BY <1>1 DEF OutputFrame
  <2>2. Len(written) \in Nat /\ generated \in Nat
    BY DEF Typed
  <2> QED
    BY <2>1, <2>2
<1>3. /\ DOMAIN q = 1 .. L /\ DOMAIN q' = 1 .. Len(q') /\ Len(q') \in Nat
      /\ q # << >> /\ (q' = << >> <=> Len(q') = 0)
      /\ DOMAIN written = 1 .. w /\ g' = g
  <2>1. q \in Seq(OutputFrame) /\ written \in Seq(Nat \X Nat) /\ q' \in Seq(OutputFrame)
    BY <1>1 DEF Typed
  <2> QED
    BY <1>1, <1>2, <2>1, EmptySeq, LenProperties
<1>4. n <= size - off
  BY <1>1, <1>2
<1>5. /\ off + n = size => /\ Len(q') = L - 1
                           /\ \A k \in 1 .. L - 1 : q'[k] = q[k + 1]
      /\ off + n # size => /\ Len(q') = L /\ q'[1] = [f EXCEPT !.offset = @ + n]
                           /\ \A k \in 2 .. L : q'[k] = q[k]
  BY <1>1, <1>2
<1>6. /\ L <= g /\ NextOutput = g - L + 1
      /\ \A k \in 1 .. L : /\ q[k].id = g - L + k
                           /\ q[k].size = SizeOfOutput(q[k].id)
                           /\ q[k].offset < q[k].size
                           /\ k > 1 => q[k].offset = 0
      /\ w = r + StartOf(g - L + 1) + off
  <2>1. NextOutput = g - L + 1
    BY <1>2 DEF NextOutput
  <2>2. \A k \in 1 .. L : NextOutput + k - 1 = g - L + k
    BY <2>1
  <2> QED
    BY <1>2, <1>3, <2>1, <2>2 DEF OutputAfter
<1>7. d = g - L + 1 /\ d \in 1 .. g /\ size = SizeOfOutput(d)
  BY <1>2, <1>6
<1>8. /\ StartOf(d) \in Nat /\ StartOf(d + 1) = StartOf(d) + size /\ w = r + StartOf(d) + off
  <2>1. d \in Nat \ {0}
    BY <1>7
  <2> QED
    BY <1>6, <1>7, <2>1, NextStart
<1>9. PICK s \in Nat : s = StartOf(d) /\ StartOf(d + 1) = s + size /\ w = r + s + off
  BY <1>8
<1>10. /\ Len(written') = w + n
       /\ \A j \in 1 .. w : written'[j] = written[j]
       /\ \A j \in 1 .. n : written'[w + j] = <<d, off + j>>
       /\ DOMAIN written' = 1 .. w + n
  <2>0. PICK b : b = Bytes(d, off, n)
    OBVIOUS
  <2>1. b \in Seq(Nat \X Nat) /\ Len(b) = n /\ \A j \in 1 .. n : b[j] = <<d, off + j>>
    <3>1. n \in Nat
      OBVIOUS
    <3> QED
      BY <2>0, <3>1 DEF Bytes
  <2>2. written' = written \o b /\ written \in Seq(Nat \X Nat) /\ Len(written) = w
    BY <1>1, <1>2, <2>0 DEF Typed
  <2>3. /\ Len(written') = w + n /\ written' \in Seq(Nat \X Nat)
        /\ \A j \in 1 .. w + n :
             written'[j] = IF j <= w THEN written[j] ELSE b[j - w]
    BY <2>1, <2>2, ConcatProperties
  <2>4. ASSUME NEW j \in 1 .. n PROVE written'[w + j] = <<d, off + j>>
    <3>1. w + j \in 1 .. w + n /\ ~ (w + j <= w) /\ (w + j) - w = j
      OBVIOUS
    <3> QED
      BY <2>1, <2>3, <3>1
  <2>5. DOMAIN written' = 1 .. w + n
    BY <2>3, LenProperties
  <2>6. \A j \in 1 .. w : j \in 1 .. w + n /\ j <= w
    OBVIOUS
  <2> QED
    BY <2>3, <2>4, <2>5, <2>6
<1>11. ASSUME NEW j \in DOMAIN written'
      PROVE  \/ j <= r /\ written'[j] = <<0, j>>
             \/ \E id \in 1 .. generated' : \E p \in 1 .. SizeOfOutput(id) :
                  j = r + StartOf(id) + p /\ written'[j] = <<id, p>>
  <2>1. CASE j \in 1 .. w
    <3>1. j \in DOMAIN written /\ written'[j] = written[j]
      BY <1>3, <1>10, <2>1
    <3>2. generated' = generated
      BY <1>1
    <3>3. \A i \in DOMAIN written :
            \/ i <= r /\ written[i] = <<0, i>>
            \/ \E id \in 1 .. generated : \E p \in 1 .. SizeOfOutput(id) :
                 i = r + StartOf(id) + p /\ written[i] = <<id, p>>
      BY DEF OutputAfter
    <3> QED
      BY <3>1, <3>2, <3>3
  <2>2. CASE j \notin 1 .. w
    <3>1. PICK m \in 1 .. n : j = w + m
      <4>1. j \in Nat /\ j > w /\ j <= w + n
        BY <1>10, <2>2
      <4>2. j - w \in 1 .. n /\ j = w + (j - w)
        BY <4>1
      <4> QED
        BY <4>2
    <3>2. PICK p \in Nat : p = off + m
      OBVIOUS
    <3>3. p \in 1 .. size
      BY <1>4, <3>2
    <3>4. j = r + StartOf(d) + p
      BY <1>8, <3>1, <3>2
    <3>5. written'[j] = <<d, p>>
      BY <1>10, <3>1, <3>2
    <3>6. generated' = g
      BY <1>1, <1>2
    <3> QED
      BY <1>7, <3>3, <3>4, <3>5, <3>6
  <2> QED
    BY <2>1, <2>2
<1>12. /\ Len(q') <= generated'
       /\ \A k \in DOMAIN q' : /\ q'[k].id = NextOutput' + k - 1
                               /\ q'[k].size = SizeOfOutput(q'[k].id)
                               /\ q'[k].offset < q'[k].size
                               /\ k > 1 => q'[k].offset = 0
       /\ Len(written') = r + StartOf(NextOutput') + (IF q' = << >> THEN 0 ELSE q'[1].offset)
  <2>0. generated' = g /\ NextOutput' = g - Len(q') + 1
    BY <1>1, <1>2 DEF NextOutput
  <2>1. CASE off + n = size
    <3>1. Len(q') = L - 1 /\ NextOutput' = d + 1
      BY <1>5, <1>7, <2>0, <2>1
    <3>2. ASSUME NEW k \in DOMAIN q'
          PROVE  /\ q'[k].id = NextOutput' + k - 1
                 /\ q'[k].size = SizeOfOutput(q'[k].id)
                 /\ q'[k].offset < q'[k].size
                 /\ q'[k].offset = 0
      <4>1. k \in 1 .. L - 1 /\ k + 1 \in 1 .. L /\ k + 1 > 1
        BY <1>3, <3>1
      <4>2. q'[k] = q[k + 1]
        BY <1>5, <2>1, <4>1
      <4>3. g - L + (k + 1) = (d + 1) + k - 1
        BY <1>7, <4>1
      <4> QED
        BY <1>6, <3>1, <4>1, <4>2, <4>3
    <3>3. (IF q' = << >> THEN 0 ELSE q'[1].offset) = 0
      BY <1>3, <3>2
    <3>4. Len(written') = r + StartOf(d + 1) + 0
      <4>1. n \in Nat /\ Len(written') = r + s + off + n
        BY <1>9, <1>10
      <4>2. r + s + off + n = r + (s + size) + 0
        BY <2>1, <4>1
      <4> QED
        BY <1>9, <4>1, <4>2
    <3>5. Len(q') <= generated'
      BY <1>6, <2>0, <3>1
    <3> QED
      BY <3>1, <3>2, <3>3, <3>4, <3>5
  <2>2. CASE off + n # size
    <3>1. Len(q') = L /\ NextOutput' = d
      BY <1>5, <1>7, <2>0, <2>2
    <3>2. /\ q'[1].id = d /\ q'[1].size = size /\ q'[1].offset = off + n
      <4>1. q'[1] = [f EXCEPT !.offset = @ + n] /\ f \in OutputFrame
        BY <1>1, <1>5, <2>2
      <4> QED
        BY <1>2, <4>1 DEF OutputFrame
    <3>3. off + n < size
      BY <1>4, <2>2
    <3>4. ASSUME NEW k \in DOMAIN q'
          PROVE  /\ q'[k].id = NextOutput' + k - 1
                 /\ q'[k].size = SizeOfOutput(q'[k].id)
                 /\ q'[k].offset < q'[k].size
                 /\ k > 1 => q'[k].offset = 0
      <4>1. CASE k = 1
        BY <1>7, <3>1, <3>2, <3>3, <4>1
      <4>2. CASE k # 1
        <5>1. k \in 2 .. L /\ k \in 1 .. L /\ g - L + k = d + k - 1
          BY <1>3, <1>7, <3>1, <4>2
        <5>2. q'[k] = q[k]
          BY <1>5, <2>2, <5>1
        <5> QED
          BY <1>6, <3>1, <5>1, <5>2
      <4> QED
        BY <4>1, <4>2
    <3>5. (IF q' = << >> THEN 0 ELSE q'[1].offset) = off + n
      BY <1>3, <3>1, <3>2
    <3>6. Len(written') = r + StartOf(d) + (off + n)
      BY <1>8, <1>9, <1>10
    <3>7. Len(q') <= generated'
      BY <1>6, <2>0, <3>1
    <3> QED
      BY <3>1, <3>4, <3>5, <3>6, <3>7
  <2> QED
    BY <2>1, <2>2
<1> QED
  <2>1. \A j \in DOMAIN written' :
          \/ j <= r /\ written'[j] = <<0, j>>
          \/ \E id \in 1 .. generated' : \E p \in 1 .. SizeOfOutput(id) :
               j = r + StartOf(id) + p /\ written'[j] = <<id, p>>
    BY <1>11
  <2> QED
    BY <1>12, <2>1 DEF OutputAfter

LEMMA OutputStays ==
  ASSUME Typed, Stream, Buffer, Output, Next
  PROVE  Output'
<1>1. PICK r \in 0 .. RequestSize : OutputAfter(r)
  BY DEF Output
<1>2. r \in Nat
  BY Sizes
<1>3. CASE UNCHANGED out_vars
  <2>1. OutputAfter(r)'
    BY <1>1, <1>3 DEF OutputAfter, out_vars, NextOutput
  <2> QED
    BY <2>1 DEF Output
<1>4. CASE Generate(SizeOfOutput(generated + 1))
  BY <1>1, <1>2, <1>4, OutputQueued DEF Output
<1>5. CASE WriteHandshake
  <2>1. PICK n \in 0 .. RequestSize : written' = Bytes(0, 0, n)
    BY <1>5, Sizes DEF WriteHandshake
  <2>2. n \in Nat
    BY Sizes
  <2>3. written' \in Seq(Nat \X Nat) /\ Len(written') = n /\ \A j \in 1 .. n : written'[j] = <<0, j>>
    BY <2>1, <2>2 DEF Bytes
  <2>4. m_output_queue' = << >> /\ generated' = 0
    BY <1>5 DEF WriteHandshake, Buffer
  <2>5. NextOutput' = 1 /\ StartOf(1) = 0
    BY <2>4 DEF NextOutput, StartOf
  <2>6. \A j \in DOMAIN written' : j <= n /\ written'[j] = <<0, j>>
    BY <2>2, <2>3
  <2>7. Len(written') = n + StartOf(NextOutput')
                          + (IF m_output_queue' = << >> THEN 0 ELSE m_output_queue'[1].offset)
    BY <2>2, <2>3, <2>4, <2>5
  <2>8. Len(m_output_queue') <= generated' /\ DOMAIN m_output_queue' = {}
    BY <2>4
  <2>9. OutputAfter(n)'
    BY <2>6, <2>7, <2>8 DEF OutputAfter
  <2> QED
    BY <2>9 DEF Output
<1>6. CASE WriteFrame
  BY <1>1, <1>2, <1>6, OutputWritten DEF Output
<1>7. \/ UNCHANGED out_vars \/ Generate(SizeOfOutput(generated + 1))
      \/ WriteHandshake \/ WriteFrame
  <2>1. CASE ReadResponse
    <3>1. Generate(2 + SubscribeSize) /\ generated + 1 = 1
      BY <2>1 DEF ReadResponse, Buffer
    <3> QED
      BY <3>1 DEF SizeOfOutput
  <2>2. CASE Work
    <3>1. UNCHANGED <<m_output_queue, generated, written>> \/ Generate(2)
      BY <2>2, WorkFacts DEF Work
    <3>2. SizeOfOutput(generated + 1) = 2
      <4>1. generated > 0 /\ generated \in Nat
        BY <2>2, WorkFacts DEF Work, Buffer, Typed
      <4> QED
        BY <4>1 DEF SizeOfOutput
    <3> QED
      BY <3>1, <3>2 DEF out_vars
  <2>3. CASE Respond \/ (\E k \in Kinds : Send(k)) \/ Arrive \/ TakeOrders
    BY <2>3 DEF Respond, Send, Arrive, TakeOrders
  <2>4. CASE StartRead \/ EndRead \/ ReadResponseInPieces
    BY <2>4 DEF StartRead, EndRead, ReadResponseInPieces
  <2> QED
    BY <2>1, <2>2, <2>3, <2>4, NextCases
<1> QED
  BY <1>3, <1>4, <1>5, <1>6, <1>7

-------------------------------------------------------------------------------
(* Frames in turn. *)

(* No frame sent later makes a bad cut a clean one.                        *)
LEMMA CutStays ==
  ASSUME Typed, Stream, Buffer, Next, m_state = "IN_WORK", UNCHANGED dropped, CutClean'
  PROVE  CutClean
<1>1. PICK i \in 0 .. Len(sent') : ResponseSize + dropped = EndAt(i)'
  BY DEF CutClean
<1>2. CASE i \in 0 .. Len(sent)
  BY <1>1, <1>2, StreamGrows DEF Grown, CutClean
<1>3. CASE i \notin 0 .. Len(sent)
  <2>1. EndAt(i)' > arrived
    BY <1>1, <1>3, StreamGrows DEF Grown
  <2>2. ResponseSize + dropped <= base /\ base + m_offset <= arrived
    BY DEF Buffer
  <2> QED
    BY <1>1, <2>1, <2>2, Sizes DEF Typed
<1> QED
  BY <1>2, <1>3

LEMMA HandledStays ==
  ASSUME Typed, Stream, Buffer, Next, UNCHANGED <<base, dropped>>
  PROVE  /\ Handled' = Handled
         /\ LevelsOf(Handled)' = LevelsOf(Handled)
         /\ {i \in Handled : sent[i].kind = "ping"}' = {i \in Handled : sent[i].kind = "ping"}
<1>1. ASSUME NEW i
      PROVE  i \in Handled' <=> i \in Handled
  <2>1. CASE i \in Frames
    <3>1. i \in Frames' /\ EndAt(i)' = EndAt(i) /\ EndAt(i - 1)' = EndAt(i - 1)
      BY <2>1, StreamGrows DEF Grown
    <3> QED
      BY <2>1, <3>1 DEF Handled
  <2>2. CASE i \in Frames' /\ i \notin Frames
    <3>1. EndAt(i)' > arrived /\ arrived' = arrived
      BY <2>2, StreamGrows DEF Grown
    <3>2. base <= arrived
      BY DEF Typed, Buffer
    <3>3. EndAt(i)' \in Nat
      BY <2>2, TypedStays, EndAtPrimed
    <3>4. ~ (EndAt(i)' <= base')
      BY <3>1, <3>2, <3>3 DEF Typed
    <3> QED
      BY <2>2, <3>4 DEF Handled
  <2>3. CASE i \notin Frames' /\ i \notin Frames
    BY <2>3 DEF Handled
  <2> QED
    BY <2>1, <2>2, <2>3
<1>2. Handled' = Handled
  BY <1>1
<1>3. \A i \in Handled : sent'[i] = sent[i]
  BY StreamGrows DEF Grown, Handled
<1>4. {i \in Handled : sent[i].kind = "ping"}' = {i \in Handled : sent[i].kind = "ping"}
  BY <1>2, <1>3
<1>5. LevelsOf(Handled)' = LevelsOf(Handled)
  BY <1>2, <1>3 DEF LevelsOf
<1> QED
  BY <1>2, <1>4, <1>5

(* When the frame in front is taken it joins the handled ones, as the last. *)
LEMMA HandledGrows ==
  ASSUME Typed, Stream, Buffer, m_state = "IN_WORK", NEW i \in Frames, InFront(i),
         base' = EndAt(i), UNCHANGED <<sent, dropped>>
  PROVE  /\ Handled' = Handled \cup {i}
         /\ LevelsOf(Handled)' =
              LevelsOf(Handled) \cup (IF sent[i].kind = "order" THEN {i} \X (1 .. Levels) ELSE {})
         /\ {j \in Handled : sent[j].kind = "ping"}' =
              {j \in Handled : sent[j].kind = "ping"}
                \cup (IF sent[i].kind = "ping" THEN {i} ELSE {})
<1>1. /\ Frames = 1 .. Len(sent) /\ Len(sent) \in Nat
      /\ \A j \in 0 .. Len(sent) : EndAt(j) \in Nat
      /\ \A j, k \in 0 .. Len(sent) : j < k => EndAt(j) < EndAt(k)
      /\ EndAt(i - 1) = base /\ base \in Nat /\ ResponseSize + dropped <= base
  BY EndAtFacts DEF Stream, InFront, Typed, Buffer
<1>2. Frames' = Frames /\ \A j : EndAt(j)' = EndAt(j)
  BY DEF Frames, EndAt
<1>3. ASSUME NEW j \in Frames
      PROVE  EndAt(j) <= EndAt(i) <=> EndAt(j) <= base \/ j = i
  <2>0. /\ i \in 0 .. Len(sent) /\ i - 1 \in 0 .. Len(sent) /\ j \in 0 .. Len(sent)
        /\ EndAt(i - 1) < EndAt(i) /\ EndAt(j) \in Nat /\ EndAt(i) \in Nat
    BY <1>1
  <2>1. CASE j < i
    <3>1. j = i - 1 \/ j < i - 1
      BY <1>1, <2>1
    <3>2. EndAt(j) <= EndAt(i - 1)
      <4>1. CASE j = i - 1
        BY <1>1, <4>1
      <4>2. CASE j < i - 1
        BY <1>1, <2>0, <4>2
      <4> QED
        BY <3>1, <4>1, <4>2
    <3> QED
      BY <1>1, <2>0, <3>2
  <2>2. CASE j = i
    BY <2>2, <2>0
  <2>3. CASE j > i
    <3>1. EndAt(i) < EndAt(j)
      BY <1>1, <2>0, <2>3
    <3> QED
      BY <1>1, <2>0, <2>3, <3>1
  <2> QED
    BY <1>1, <2>1, <2>2, <2>3
<1>4. Handled' = Handled \cup {i}
  <2>1. EndAt(i - 1) >= ResponseSize + dropped
    BY <1>1, Sizes DEF Typed
  <2>2. Handled' = {j \in Frames : EndAt(j - 1) >= ResponseSize + dropped /\ EndAt(j) <= EndAt(i)}
    BY <1>2 DEF Handled
  <2> QED
    BY <1>3, <2>1, <2>2 DEF Handled
<1>5. {j \in Handled : sent[j].kind = "ping"}' =
        {j \in Handled : sent[j].kind = "ping"} \cup (IF sent[i].kind = "ping" THEN {i} ELSE {})
  BY <1>4
<1>6. {j \in Handled : sent[j].kind = "order"}' =
        {j \in Handled : sent[j].kind = "order"} \cup (IF sent[i].kind = "order" THEN {i} ELSE {})
  BY <1>4
<1>7. LevelsOf(Handled)' =
        LevelsOf(Handled) \cup (IF sent[i].kind = "order" THEN {i} \X (1 .. Levels) ELSE {})
  BY <1>6 DEF LevelsOf
<1> QED
  BY <1>4, <1>5, <1>7

LEMMA InStepStays ==
  ASSUME Typed, Stream, Next, UNCHANGED base, InStep
  PROVE  InStep'
<1>1. PICK i \in 0 .. Len(sent) : base = EndAt(i)
  BY DEF InStep
<1>2. i \in 0 .. Len(sent') /\ EndAt(i)' = EndAt(i)
  BY StreamGrows DEF Grown
<1> QED
  BY <1>1, <1>2 DEF InStep

(* A step that takes no frame and stores nothing.                          *)
LEMMA QuietInTurn ==
  ASSUME Typed, Stream, Buffer, Next, UNCHANGED <<base, dropped, stored, generated, socket>>,
         InStep, StoredInTurn, PingsAnswered
  PROVE  InStep' /\ StoredInTurn' /\ PingsAnswered'
<1>1. InStep'
  BY InStepStays
<1>2. PingsAnswered'
  BY HandledStays DEF PingsAnswered
<1>3. StoredInTurn'
  <2>1. \A j \in 2 .. Len(stored') : Before(stored'[j - 1], stored'[j])
    BY DEF StoredInTurn
  <2>2. LevelsOf(Handled)' = LevelsOf(Handled)
    BY HandledStays
  <2>3. CASE socket = "open"
    BY <2>1, <2>2, <2>3 DEF StoredInTurn
  <2>4. CASE socket # "open"
    <3>1. PICK i \in Frames, m \in 0 .. Levels - 1 :
            InFront(i) /\ Range(stored) = LevelsOf(Handled) \cup ({i} \X (1 .. m))
      BY <2>4 DEF StoredInTurn
    <3>2. i \in Frames' /\ InFront(i)'
      BY <3>1, StreamGrows DEF Grown, InFront
    <3>3. Range(stored)' = LevelsOf(Handled)' \cup ({i} \X (1 .. m))
      BY <2>2, <3>1
    <3> QED
      BY <2>1, <2>4, <3>2, <3>3 DEF StoredInTurn
  <2> QED
    BY <2>3, <2>4
<1> QED
  BY <1>1, <1>2, <1>3

(* What StoreLevels() does to the stored levels.                           *)
LEMMA StoreFacts ==
  ASSUME Typed, NEW i \in Nat, NEW n \in Nat, StoreLevels(i, n),
         \A j \in 2 .. Len(stored) : Before(stored[j - 1], stored[j]),
         \A x \in Range(stored) : x[1] < i
  PROVE  /\ Range(stored') = Range(stored) \cup ({i} \X (1 .. n))
         /\ \A j \in 2 .. Len(stored') : Before(stored'[j - 1], stored'[j])
<1> DEFINE new == [l \in 1 .. n |-> <<i, l>>]
<1>1. PICK L \in Nat : L = Len(stored)
  BY DEF Typed
<1>2. /\ stored' = stored \o new /\ stored \in Seq(Nat \X Nat) /\ new \in Seq(Nat \X Nat)
      /\ Len(new) = n /\ \A l \in 1 .. n : new[l] = <<i, l>>
  BY DEF StoreLevels, Typed
<1> HIDE DEF new
<1>3. /\ Len(stored') = L + n /\ stored' \in Seq(Nat \X Nat)
      /\ \A j \in 1 .. L + n : stored'[j] = IF j <= L THEN stored[j] ELSE new[j - L]
      /\ DOMAIN stored = 1 .. L /\ DOMAIN stored' = 1 .. L + n
  <2>1. /\ Len(stored') = L + n /\ stored' \in Seq(Nat \X Nat)
        /\ \A j \in 1 .. L + n : stored'[j] = IF j <= L THEN stored[j] ELSE new[j - L]
    BY <1>1, <1>2, ConcatProperties
  <2>2. DOMAIN stored = 1 .. L
    BY <1>1, <1>2, LenProperties
  <2>3. DOMAIN stored' = 1 .. L + n
    BY <2>1, LenProperties
  <2> QED
    BY <2>1, <2>2, <2>3
<1>4. /\ \A j \in 1 .. L : j \in 1 .. L + n /\ stored'[j] = stored[j]
      /\ \A l \in 1 .. n : L + l \in 1 .. L + n /\ stored'[L + l] = <<i, l>>
  <2>1. ASSUME NEW l \in 1 .. n PROVE L + l \in 1 .. L + n /\ stored'[L + l] = <<i, l>>
    <3>1. L + l \in 1 .. L + n /\ ~ (L + l <= L) /\ (L + l) - L = l
      OBVIOUS
    <3> QED
      BY <1>2, <1>3, <3>1
  <2>2. \A j \in 1 .. L : j \in 1 .. L + n /\ j <= L
    OBVIOUS
  <2> QED
    BY <1>3, <2>1, <2>2
<1>5. \A j \in 1 .. L + n : j \in 1 .. L \/ \E l \in 1 .. n : j = L + l
  <2> SUFFICES ASSUME NEW j \in 1 .. L + n, j \notin 1 .. L
               PROVE  \E l \in 1 .. n : j = L + l
    OBVIOUS
  <2>1. j - L \in 1 .. n /\ j = L + (j - L)
    OBVIOUS
  <2> QED
    BY <2>1
<1>6. Range(stored') = Range(stored) \cup ({i} \X (1 .. n))
  <2>1. Range(stored') = {stored'[j] : j \in 1 .. L + n} /\ Range(stored) = {stored[j] : j \in 1 .. L}
    BY <1>3 DEF Range
  <2>2. ASSUME NEW x \in Range(stored') PROVE x \in Range(stored) \cup ({i} \X (1 .. n))
    <3>1. PICK j \in 1 .. L + n : x = stored'[j]
      BY <2>1, <2>2
    <3>2. CASE j \in 1 .. L
      BY <1>4, <2>1, <3>1, <3>2
    <3>3. ASSUME NEW l \in 1 .. n, j = L + l
          PROVE  x \in {i} \X (1 .. n)
      <4>1. x = <<i, l>>
        BY <1>4, <3>1, <3>3
      <4> QED
        BY <4>1
    <3> QED
      BY <1>5, <3>2, <3>3
  <2>3. ASSUME NEW x \in Range(stored) PROVE x \in Range(stored')
    BY <1>4, <2>1
  <2>4. ASSUME NEW x \in {i} \X (1 .. n) PROVE x \in Range(stored')
    <3>1. PICK l \in 1 .. n : x = <<i, l>>
      OBVIOUS
    <3> QED
      BY <1>4, <2>1, <3>1
  <2> QED
    BY <2>2, <2>3, <2>4
<1>7. ASSUME NEW j \in 2 .. Len(stored') PROVE Before(stored'[j - 1], stored'[j])
  <2>0. j \in 1 .. L + n /\ j - 1 \in 1 .. L + n /\ j \in Nat
    BY <1>3
  <2>1. CASE j \in 1 .. L
    <3>1. j - 1 \in 1 .. L /\ j \in 2 .. Len(stored)
      BY <1>1, <1>3, <2>1
    <3> QED
      BY <1>4, <2>1, <3>1
  <2>2. ASSUME NEW l \in 1 .. n, j = L + l
        PROVE  Before(stored'[j - 1], stored'[j])
    <3>1. CASE l = 1
      <4>1. j - 1 \in 1 .. L
        BY <2>0, <2>2, <3>1
      <4>2. stored[j - 1] \in Range(stored)
        BY <1>3, <4>1 DEF Range
      <4>3. stored'[j - 1] = stored[j - 1] /\ stored'[j] = <<i, 1>>
        BY <1>4, <2>2, <3>1, <4>1
      <4> QED
        BY <4>2, <4>3 DEF Before
    <3>2. CASE l # 1
      <4>1. PICK k \in 1 .. n : k = l - 1 /\ k < l
        BY <3>2
      <4>2. j - 1 = L + k
        BY <2>2, <4>1
      <4>3. stored'[j - 1] = <<i, k>> /\ stored'[j] = <<i, l>>
        BY <1>4, <2>2, <4>1, <4>2
      <4> QED
        BY <4>1, <4>3 DEF Before
    <3> QED
      BY <3>1, <3>2
  <2> QED
    BY <1>5, <2>0, <2>1, <2>2
<1> QED
  BY <1>6, <1>7

(* All that is stored is of frames before the one in front.                *)
LEMMA StoredBefore ==
  ASSUME Typed, Stream, socket = "open", StoredInTurn, NEW i \in Frames, InFront(i)
  PROVE  \A x \in Range(stored) : x[1] < i
<1> SUFFICES ASSUME NEW x \in Range(stored) PROVE x[1] < i
  OBVIOUS
<1>1. PICK j \in Handled : x[1] = j
  BY DEF StoredInTurn, LevelsOf
<1>2. /\ j \in Frames /\ EndAt(j) <= EndAt(i - 1)
      /\ i - 1 \in 0 .. Len(sent) /\ i \in 0 .. Len(sent) /\ j \in 0 .. Len(sent)
      /\ EndAt(j) \in Nat /\ EndAt(i - 1) \in Nat
  BY <1>1, EndAtFacts DEF Handled, InFront
<1>3. \A m, k \in 0 .. Len(sent) : m < k => EndAt(m) < EndAt(k)
  BY DEF Stream
<1>4. ~ (i - 1 < j)
  BY <1>2, <1>3
<1> QED
  BY <1>1, <1>2, <1>4

LEMMA TakenInTurn ==
  ASSUME Typed, Stream, Buffer, m_state = "IN_WORK", NEW i \in Frames, InFront(i),
         socket = "open", base' = EndAt(i), UNCHANGED <<sent, dropped, socket>>,
         IF sent[i].kind = "order" THEN StoreLevels(i, Levels) ELSE stored' = stored,
         generated' = IF sent[i].kind = "ping" THEN generated + 1 ELSE generated,
         InStep, StoredInTurn, PingsAnswered
  PROVE  InStep' /\ StoredInTurn' /\ PingsAnswered'
<1>1. InStep'
  <2>1. i \in 0 .. Len(sent') /\ EndAt(i)' = EndAt(i)
    BY EndAtFacts DEF EndAt
  <2> QED
    BY <2>1 DEF InStep
<1>2. /\ \A j \in 2 .. Len(stored) : Before(stored[j - 1], stored[j])
      /\ Range(stored) = LevelsOf(Handled)
      /\ \A x \in Range(stored) : x[1] < i
      /\ i \in Nat
  BY StoredBefore, EndAtFacts DEF StoredInTurn
<1>3. StoredInTurn'
  <2>1. CASE sent[i].kind = "order"
    <3>1. /\ Range(stored') = Range(stored) \cup ({i} \X (1 .. Levels))
          /\ \A j \in 2 .. Len(stored') : Before(stored'[j - 1], stored'[j])
      BY <1>2, <2>1, StoreFacts, Sizes
    <3>2. LevelsOf(Handled)' = LevelsOf(Handled) \cup ({i} \X (1 .. Levels))
      BY <2>1, HandledGrows
    <3> QED
      BY <1>2, <3>1, <3>2 DEF StoredInTurn
  <2>2. CASE sent[i].kind # "order"
    <3>1. LevelsOf(Handled)' = LevelsOf(Handled)
      BY <2>2, HandledGrows
    <3> QED
      BY <1>2, <2>2, <3>1 DEF StoredInTurn
  <2> QED
    BY <2>1, <2>2
<1>4. PingsAnswered'
  <2> DEFINE P == {j \in Handled : sent[j].kind = "ping"}
  <2>1. P' = P \cup (IF sent[i].kind = "ping" THEN {i} ELSE {})
    BY HandledGrows
  <2>2. IsFiniteSet(P) /\ i \notin P
    <3>1. IsFiniteSet(Frames)
      BY EndAtFacts, FS_Interval
    <3>2. IsFiniteSet(P)
      BY <3>1, FS_Subset DEF Handled
    <3>3. i \notin Handled
      <4>1. EndAt(i - 1) < EndAt(i) /\ EndAt(i) \in Nat /\ EndAt(i - 1) \in Nat
        BY EndAtFacts DEF Stream
      <4> QED
        BY <4>1 DEF Handled, InFront
    <3> QED
      BY <3>2, <3>3
  <2>3. generated = 1 + Cardinality(P) /\ Cardinality(P) \in Nat
    BY <2>2, FS_CardinalityType DEF PingsAnswered
  <2>4. generated' = 1 + Cardinality(P')
    <3> HIDE DEF P
    <3>1. CASE sent[i].kind = "ping"
      <4>1. Cardinality(P \cup {i}) = Cardinality(P) + 1
        BY <2>2, FS_AddElement
      <4> QED
        BY <2>1, <2>3, <3>1, <4>1
    <3>2. CASE sent[i].kind # "ping"
      <4>1. P' = P
        BY <2>1, <3>2
      <4> QED
        BY <2>3, <3>2, <4>1
    <3> QED
      BY <3>1, <3>2
  <2> QED
    BY <2>4 DEF PingsAnswered
<1> QED
  BY <1>1, <1>3, <1>4

(* An exception in the middle of the frame in front.                       *)
LEMMA ThrownInTurn ==
  ASSUME Typed, Stream, Buffer, Next, NEW i \in Frames, InFront(i), socket = "open",
         UNCHANGED <<sent, base, dropped, generated>>, socket' # "open",
         NEW n \in 0 .. Levels - 1, StoreLevels(i, n) \/ (n = 0 /\ stored' = stored),
         InStep, StoredInTurn, PingsAnswered
  PROVE  InStep' /\ StoredInTurn' /\ PingsAnswered'
<1>1. InStep'
  BY InStepStays
<1>2. PingsAnswered'
  BY HandledStays DEF PingsAnswered
<1>3. LevelsOf(Handled)' = LevelsOf(Handled)
  BY HandledStays
<1>4. /\ Range(stored') = Range(stored) \cup ({i} \X (1 .. n))
      /\ \A j \in 2 .. Len(stored') : Before(stored'[j - 1], stored'[j])
  <2>1. /\ \A j \in 2 .. Len(stored) : Before(stored[j - 1], stored[j])
        /\ \A x \in Range(stored) : x[1] < i
        /\ i \in Nat /\ n \in Nat
    BY StoredBefore, EndAtFacts, Sizes DEF StoredInTurn
  <2>2. CASE StoreLevels(i, n)
    BY <2>1, <2>2, StoreFacts
  <2>3. CASE n = 0 /\ stored' = stored
    BY <2>1, <2>3
  <2> QED
    BY <2>2, <2>3
<1>5. Range(stored)' = LevelsOf(Handled)' \cup ({i} \X (1 .. n))
  BY <1>3, <1>4 DEF StoredInTurn
<1>6. i \in Frames' /\ InFront(i)'
  BY StreamGrows DEF Grown, InFront
<1>7. StoredInTurn'
  BY <1>4, <1>5, <1>6 DEF StoredInTurn
<1> QED
  BY <1>1, <1>2, <1>7

LEMMA ResponseInTurn ==
  ASSUME Typed, Stream, Buffer, ReadResponse, CutClean'
  PROVE  InStep' /\ StoredInTurn' /\ PingsAnswered'
<1>1. /\ sent' = sent /\ socket' = socket /\ stored' = stored
      /\ base' = Got /\ dropped' = Got - ResponseSize /\ generated' = 1
      /\ socket = "open" /\ stored = << >>
  BY ReadFacts DEF ReadResponse, Buffer, Generate, server_vars, order_vars
<1>2. ResponseSize + dropped' = base' /\ base' \in Nat
  BY <1>1, ReadFacts, Sizes
<1>3. InStep'
  BY <1>2 DEF CutClean, InStep
<1>4. Handled' = {}
  <2> SUFFICES ASSUME NEW i \in Handled' PROVE FALSE
    OBVIOUS
  <2>1. i \in Frames /\ EndAt(i - 1)' >= ResponseSize + dropped' /\ EndAt(i)' <= base'
    BY <1>1 DEF Handled, Frames
  <2>2. EndAt(i - 1)' = EndAt(i - 1) /\ EndAt(i)' = EndAt(i)
    BY <1>1 DEF EndAt
  <2>3. EndAt(i - 1) < EndAt(i) /\ EndAt(i) \in Nat /\ EndAt(i - 1) \in Nat
    BY <2>1, EndAtFacts DEF Stream
  <2> QED
    BY <1>2, <2>1, <2>2, <2>3
<1>5. LevelsOf(Handled)' = {} /\ {i \in Handled : sent[i].kind = "ping"}' = {}
  BY <1>4 DEF LevelsOf
<1>6. StoredInTurn'
  <2>1. Range(stored') = {} /\ Len(stored') = 0
    BY <1>1 DEF Range
  <2> QED
    BY <1>1, <1>5, <2>1 DEF StoredInTurn
<1>7. PingsAnswered'
  BY <1>1, <1>5, FS_EmptySet DEF PingsAnswered
<1> QED
  BY <1>3, <1>6, <1>7

LEMMA TurnStays ==
  ASSUME Typed, Stream, Buffer, FramesInTurn, Next
  PROVE  FramesInTurn'
<1> SUFFICES ASSUME m_state' = "IN_WORK", CutClean'
             PROVE  InStep' /\ StoredInTurn' /\ PingsAnswered'
  BY DEF FramesInTurn
<1>1. CASE ReadResponse
  BY <1>1, ResponseInTurn
<1>2. CASE ~ ReadResponse
  <2>1. m_state = "IN_WORK" /\ UNCHANGED dropped
    BY <1>2 DEF Next, OnRead, OnWrite, Respond, Send, Arrive, TakeOrders, StartRead, EndRead,
       ReadResponseInPieces, Working, Takes, NoFrameYet, TakePing, TakeNothing, TakeOrder,
       TakeBad, TakeGarbage, WriteHandshake, WriteFrame, in_vars
  <2>2. InStep /\ StoredInTurn /\ PingsAnswered
    BY <2>1, CutStays DEF FramesInTurn
  <2>3. CASE UNCHANGED <<base, stored, generated, socket>>
    BY <2>1, <2>2, <2>3, QuietInTurn
  <2>4. ASSUME NEW i \in Frames, Takes(i), Shift(FrameEnd(i)), UNCHANGED socket,
               IF sent[i].kind = "order" THEN StoreLevels(i, Levels) ELSE stored' = stored,
               generated' = IF sent[i].kind = "ping" THEN generated + 1 ELSE generated
        PROVE  InStep' /\ StoredInTurn' /\ PingsAnswered'
    <3>1. InFront(i) /\ base' = EndAt(i) /\ sent' = sent /\ socket = "open"
      BY <2>4, TakesFacts DEF Takes, Shift, Working, Buffer, server_vars
    <3> QED
      BY <2>1, <2>2, <2>4, <3>1, TakenInTurn
  <2>5. ASSUME NEW i \in Frames, Takes(i), UNCHANGED <<base, generated>>, socket' # "open",
               NEW n \in 0 .. Levels - 1, StoreLevels(i, n) \/ (n = 0 /\ stored' = stored)
        PROVE  InStep' /\ StoredInTurn' /\ PingsAnswered'
    <3>1. InFront(i) /\ sent' = sent /\ socket = "open"
      BY <2>5 DEF Takes, Working, Buffer, server_vars
    <3> QED
      BY <2>1, <2>2, <2>5, <3>1, ThrownInTurn
  <2>6. CASE TakePing
    <3>1. PICK i \in Frames : /\ Takes(i) /\ sent[i].kind = "ping" /\ Generate(2)
                              /\ Shift(FrameEnd(i)) /\ UNCHANGED <<socket, order_vars>>
      BY <2>6 DEF TakePing
    <3>2. generated' = generated + 1 /\ stored' = stored
      BY <3>1 DEF Generate, order_vars
    <3> QED
      BY <2>4, <3>1, <3>2
  <2>7. CASE TakeNothing
    <3>1. PICK i \in Frames : /\ Takes(i) /\ sent[i].kind \in {"junk", "notice"}
                              /\ Shift(FrameEnd(i)) /\ UNCHANGED <<socket, out_vars, order_vars>>
      BY <2>7 DEF TakeNothing
    <3>2. generated' = generated /\ stored' = stored
      BY <3>1 DEF out_vars, order_vars
    <3> QED
      BY <2>4, <3>1, <3>2
  <2>8. CASE TakeOrder
    <3>1. PICK i \in Frames :
            /\ Takes(i) /\ sent[i].kind = "order" /\ UNCHANGED out_vars
            /\ \/ StoreLevels(i, Levels) /\ Shift(FrameEnd(i)) /\ UNCHANGED socket
               \/ /\ \E n \in 0 .. Levels - 1 : StoreLevels(i, n)
                  /\ socket' = "closed" /\ UNCHANGED base
      BY <2>8 DEF TakeOrder
    <3>2. generated' = generated
      BY <3>1 DEF out_vars
    <3>3. CASE StoreLevels(i, Levels) /\ Shift(FrameEnd(i)) /\ UNCHANGED socket
      BY <2>4, <3>1, <3>2, <3>3
    <3>4. CASE /\ \E n \in 0 .. Levels - 1 : StoreLevels(i, n)
               /\ socket' = "closed" /\ UNCHANGED base
      <4>1. PICK n \in 0 .. Levels - 1 : StoreLevels(i, n)
        BY <3>4
      <4> QED
        BY <2>5, <3>1, <3>2, <3>4, <4>1
    <3> QED
      BY <3>1, <3>3, <3>4
  <2>9. CASE TakeBad
    <3>1. PICK i \in Frames : Takes(i) /\ socket' # "open" /\ UNCHANGED <<base, out_vars, order_vars>>
      BY <2>9 DEF TakeBad
    <3>2. generated' = generated /\ stored' = stored /\ 0 \in 0 .. Levels - 1
      BY <3>1, Sizes DEF out_vars, order_vars
    <3> QED
      BY <2>5, <3>1, <3>2
  <2>10. CASE TakeGarbage
    BY <2>2, <2>10 DEF TakeGarbage
  <2>11. CASE NoFrameYet \/ StartRead \/ EndRead \/ ReadResponseInPieces
    BY <2>3, <2>11 DEF NoFrameYet, StartRead, EndRead, ReadResponseInPieces, out_vars, order_vars
  <2>12. CASE Respond \/ (\E k \in Kinds : Send(k)) \/ Arrive \/ TakeOrders
    BY <2>3, <2>12 DEF Respond, Send, Arrive, TakeOrders, in_vars, out_vars, order_vars
  <2>13. CASE WriteHandshake \/ WriteFrame
    BY <2>3, <2>13 DEF WriteHandshake, WriteFrame, in_vars, order_vars
  <2> QED
    BY <1>2, <2>6, <2>7, <2>8, <2>9, <2>10, <2>11, <2>12, <2>13, NextCases DEF Work
<1> QED
  BY <1>1, <1>2

-------------------------------------------------------------------------------
(* What stays in the buffer. *)

LEMMA FramesFinite ==
  ASSUME Typed
  PROVE  IsFiniteSet(Frames) /\ \A S : S \subseteq Frames => IsFiniteSet(S) /\ Cardinality(S) \in Nat
<1>1. IsFiniteSet(Frames)
  BY EndAtFacts, FS_Interval
<1> QED
  BY <1>1, FS_Subset, FS_CardinalityType

(* What is sent later comes behind the buffer. *)
LEMMA BacklogQuiet ==
  ASSUME Typed, Stream, Buffer, Next, UNCHANGED <<base, m_offset>>
  PROVE  Backlog' = Backlog /\ Cardinality(Pings) <= Cardinality(Pings')
<1>1. ASSUME NEW i
      PROVE  i \in Backlog' <=> i \in Backlog
  <2>1. CASE i \in Frames
    <3>1. i \in Frames' /\ EndAt(i)' = EndAt(i) /\ EndAt(i - 1)' = EndAt(i - 1)
      BY <2>1, StreamGrows DEF Grown
    <3> QED
      BY <2>1, <3>1 DEF Backlog
  <2>2. CASE i \in Frames' /\ i \notin Frames
    <3>1. EndAt(i)' > arrived
      BY <2>2, StreamGrows DEF Grown
    <3>2. base + m_offset <= arrived
      BY DEF Buffer
    <3>3. EndAt(i)' \in Nat
      BY <2>2, TypedStays, EndAtPrimed
    <3>4. ~ (EndAt(i)' <= base' + m_offset')
      BY <3>1, <3>2, <3>3 DEF Typed
    <3> QED
      BY <2>2, <3>4 DEF Backlog
  <2>3. CASE i \notin Frames' /\ i \notin Frames
    BY <2>3 DEF Backlog
  <2> QED
    BY <2>1, <2>2, <2>3
<1>2. Pings \subseteq Pings'
  BY StreamGrows DEF Grown, Pings
<1>3. IsFiniteSet(Pings')
  <2>1. IsFiniteSet(Frames')
    <3>1. sent' \in Seq([kind : Kinds, end : Nat])
      BY StreamGrows DEF Grown
    <3>2. Frames' = 1 .. Len(sent') /\ Len(sent') \in Nat
      BY <3>1, LenProperties DEF Frames
    <3> QED
      BY <3>2, FS_Interval
  <2>2. Pings' \subseteq Frames'
    BY DEF Pings
  <2> QED
    BY <2>1, <2>2, FS_Subset
<1> QED
  BY <1>1, <1>2, <1>3, FS_Subset

(* A frame whose first byte is in the buffer is not before the one in      *)
(* front.                                                                  *)
LEMMA NotBefore ==
  ASSUME Typed, Stream, NEW i \in Frames, InFront(i), NEW j \in Frames, EndAt(j - 1) >= base
  PROVE  j = i \/ (j > i /\ EndAt(j) > EndAt(i))
<1>1. /\ i - 1 \in 0 .. Len(sent) /\ i \in 0 .. Len(sent)
      /\ j - 1 \in 0 .. Len(sent) /\ j \in 0 .. Len(sent)
      /\ EndAt(j - 1) \in Nat /\ EndAt(i - 1) \in Nat /\ EndAt(i) \in Nat /\ EndAt(j) \in Nat
  BY EndAtFacts
<1>2. \A m, k \in 0 .. Len(sent) : m < k => EndAt(m) < EndAt(k)
  BY DEF Stream
<1>3. ~ (j - 1 < i - 1)
  BY <1>1, <1>2 DEF InFront
<1>4. j > i => EndAt(j) > EndAt(i)
  BY <1>1, <1>2
<1> QED
  BY <1>1, <1>3, <1>4

LEMMA BacklogWaits ==
  ASSUME Typed, Stream, Buffer, NEW i \in Frames, InFront(i), FrameEnd(i) = 0,
         UNCHANGED <<sent, base>>, m_offset' = Got
  PROVE  Cardinality(Backlog') <= Cardinality(Pings')
<1>1. Frames' = Frames /\ Pings' = Pings /\ \A j : EndAt(j)' = EndAt(j)
  BY DEF Frames, Pings, EndAt
<1>2. Backlog' = {j \in Frames : EndAt(j - 1) >= base /\ EndAt(j) <= base + Got}
  BY <1>1 DEF Backlog
<1>3. /\ base \in Nat /\ Got \in Nat /\ EndAt(i) \in Nat /\ EndAt(i - 1) = base
      /\ EndAt(i) = base + FrameOf(sent[i].kind).size
      /\ FrameOf(sent[i].kind).size \in Nat /\ FrameOf(sent[i].kind).size >= 2
  BY EndAtFacts, ReadFacts, FrameFacts DEF Typed, Stream, InFront
<1>4. ASSUME NEW j \in Backlog'
      PROVE  j = i /\ sent[i].kind = "ping"
  <2>1. j \in Frames /\ EndAt(j - 1) >= base /\ EndAt(j) <= base + Got /\ EndAt(j) \in Nat
    BY <1>2, EndAtFacts
  <2>2. j = i \/ (j > i /\ EndAt(j) > EndAt(i))
    BY <2>1, NotBefore
  <2>3. EndAt(i) <= base + Got
    BY <1>3, <2>1, <2>2
  <2>4. Got = 2 /\ sent[i].kind = "ping"
    BY <1>3, <2>3, WaitsFacts
  <2> QED
    BY <1>3, <2>1, <2>2, <2>4
<1>5. CASE Backlog' = {}
  BY <1>1, <1>5, FramesFinite, FS_EmptySet DEF Pings
<1>6. CASE Backlog' # {}
  <2>1. Backlog' = {i} /\ {i} \subseteq Pings
    BY <1>4, <1>6 DEF Pings
  <2>2. Cardinality({i}) <= Cardinality(Pings)
    BY <2>1, FramesFinite, FS_Subset DEF Pings
  <2> QED
    BY <1>1, <2>1, <2>2
<1> QED
  BY <1>5, <1>6

LEMMA BacklogTaken ==
  ASSUME Typed, Stream, Buffer, NEW i \in Frames, Takes(i), Shift(FrameEnd(i))
  PROVE  Cardinality(Backlog') <= Cardinality(Backlog) + Excess
<1> DEFINE ends == {j \in Frames : EndAt(j) > base + m_offset /\ EndAt(j) <= base + Got}
           all == Backlog \cup ends
<1>1. /\ EndAt(i - 1) = base /\ base' = EndAt(i) /\ base' + m_offset' = base + Got
      /\ base + FrameEnd(i) = EndAt(i) /\ FrameEnd(i) <= Got /\ FrameEnd(i) \in Nat
      /\ base \in Nat /\ Got \in Nat /\ m_offset \in Nat /\ UNCHANGED sent
      /\ EndAt(i) > base
  <2> HIDE DEF ends, all
  <2>1. /\ FrameEnd(i) \in Nat /\ FrameEnd(i) >= 2 /\ FrameEnd(i) <= Got
        /\ base + FrameEnd(i) = EndAt(i)
    BY TakesFacts
  <2>2. Got \in Nat
    BY ReadFacts
  <2>3. base \in Nat /\ m_offset \in Nat
    BY DEF Typed
  <2>4. EndAt(i - 1) = base /\ UNCHANGED sent
    BY DEF Takes, InFront, Working, server_vars
  <2>5. base' = base + FrameEnd(i) /\ m_offset' = Got - FrameEnd(i)
    BY DEF Shift
  <2> QED
    BY <2>1, <2>2, <2>3, <2>4, <2>5
<1>2. Frames' = Frames /\ \A j : EndAt(j)' = EndAt(j)
  BY <1>1 DEF Frames, EndAt
<1>3. Backlog' = {j \in Frames : EndAt(j - 1) >= EndAt(i) /\ EndAt(j) <= base + Got}
  BY <1>1, <1>2 DEF Backlog
<1>4. Backlog' \subseteq all \ {i}
  <2> SUFFICES ASSUME NEW j \in Backlog' PROVE j \in all /\ j # i
    OBVIOUS
  <2>1. /\ j \in Frames /\ EndAt(j - 1) >= EndAt(i) /\ EndAt(j) <= base + Got
        /\ EndAt(j) \in Nat /\ EndAt(j - 1) \in Nat /\ EndAt(i) \in Nat
    BY <1>3, EndAtFacts
  <2> QED
    BY <1>1, <2>1 DEF Backlog
<1>5. i \in all
  BY <1>1 DEF Backlog
<1>6. /\ IsFiniteSet(Backlog) /\ IsFiniteSet(ends) /\ IsFiniteSet(all)
      /\ Cardinality(Backlog) \in Nat /\ Cardinality(ends) \in Nat
      /\ ends # {} => Cardinality(ends) # 0
  <2>1. Backlog \subseteq Frames /\ ends \subseteq Frames /\ all \subseteq Frames
    BY DEF Backlog
  <2> HIDE DEF ends, all
  <2>2. /\ IsFiniteSet(Backlog) /\ IsFiniteSet(ends) /\ IsFiniteSet(all)
        /\ Cardinality(Backlog) \in Nat /\ Cardinality(ends) \in Nat
    BY <2>1, FramesFinite
  <2> QED
    BY <2>2, FS_EmptySet
<1>7. Excess = IF ends = {} THEN 0 ELSE Cardinality(ends) - 1
  BY DEF Excess
<1>8. Cardinality(all) <= Cardinality(Backlog) + Cardinality(ends) /\ Cardinality(all) \in Nat
  <2> HIDE DEF ends
  <2>1. Cardinality(all) = Cardinality(Backlog) + Cardinality(ends) - Cardinality(Backlog \cap ends)
    BY <1>6, FS_Union
  <2>2. IsFiniteSet(Backlog \cap ends)
    BY <1>6, FS_Subset
  <2>3. Cardinality(Backlog \cap ends) \in Nat
    BY <2>2, FS_CardinalityType
  <2>4. Cardinality(all) \in Nat
    BY <1>6, FS_CardinalityType
  <2> QED
    BY <1>6, <2>1, <2>3, <2>4
<1> HIDE DEF all, ends
<1>9. Cardinality(all \ {i}) = Cardinality(all) - 1 /\ IsFiniteSet(all \ {i})
  BY <1>5, <1>6, FS_RemoveElement
<1>10. Cardinality(Backlog') <= Cardinality(all) - 1 /\ Cardinality(Backlog') \in Nat
  BY <1>4, <1>9, FS_Subset, FS_CardinalityType
<1>11. CASE ends = {}
  <2>1. all = Backlog
    BY <1>11 DEF all
  <2> QED
    BY <1>6, <1>7, <1>10, <1>11, <2>1
<1>12. CASE ends # {}
  BY <1>6, <1>7, <1>8, <1>10, <1>12
<1> QED
  BY <1>11, <1>12

LEMMA BacklogStays ==
  ASSUME Typed, Stream, Buffer, FramesInTurn, BacklogIsExcess, Next
  PROVE  BacklogIsExcess'
<1> SUFFICES ASSUME m_state' = "IN_WORK", CutClean', socket' = "open"
             PROVE  Cardinality(Backlog') <= excess' + Cardinality(Pings')
  BY DEF BacklogIsExcess
<1>0. /\ excess \in Nat /\ excess' \in Nat /\ Excess \in Nat
      /\ Cardinality(Backlog) \in Nat /\ Cardinality(Pings) \in Nat
      /\ Cardinality(Backlog') \in Nat /\ Cardinality(Pings') \in Nat
  <2>1. Typed'
    BY TypedStays
  <2>2. IsFiniteSet(Frames')
    <3>1. Frames' = 1 .. Len(sent') /\ Len(sent') \in Nat
      BY <2>1, LenProperties DEF Typed, Frames
    <3> QED
      BY <3>1, FS_Interval
  <2>3. /\ Backlog \subseteq Frames /\ Pings \subseteq Frames
        /\ Backlog' \subseteq Frames' /\ Pings' \subseteq Frames'
    BY DEF Backlog, Pings
  <2>4. Cardinality(Backlog') \in Nat /\ Cardinality(Pings') \in Nat
    BY <2>2, <2>3, FS_Subset, FS_CardinalityType
  <2>5. Cardinality(Backlog) \in Nat /\ Cardinality(Pings) \in Nat
    BY <2>3, FramesFinite
  <2>6. excess \in Nat /\ excess' \in Nat
    BY <2>1 DEF Typed
  <2> QED
    BY <2>4, <2>5, <2>6, ExcessTyped
<1>1. CASE ReadResponse
  <2>1. m_offset' = 0 /\ sent' = sent /\ base' \in Nat
    BY <1>1, TypedStays DEF ReadResponse, server_vars, Typed
  <2>2. Backlog' = {}
    <3> SUFFICES ASSUME NEW j \in Backlog' PROVE FALSE
      OBVIOUS
    <3>1. j \in Frames /\ EndAt(j - 1)' >= base' /\ EndAt(j)' <= base' + m_offset'
      BY <2>1 DEF Backlog, Frames
    <3>2. EndAt(j - 1)' = EndAt(j - 1) /\ EndAt(j)' = EndAt(j)
      BY <2>1 DEF EndAt
    <3>3. EndAt(j - 1) < EndAt(j) /\ EndAt(j) \in Nat /\ EndAt(j - 1) \in Nat
      BY <3>1, EndAtFacts DEF Stream
    <3> QED
      BY <2>1, <3>1, <3>2, <3>3
  <2> QED
    BY <1>0, <2>2, FS_EmptySet
<1>2. CASE ~ ReadResponse
  <2>1. m_state = "IN_WORK" /\ UNCHANGED dropped
    BY <1>2 DEF Next, OnRead, OnWrite, Respond, Send, Arrive, TakeOrders, StartRead, EndRead,
       ReadResponseInPieces, Working, Takes, NoFrameYet, TakePing, TakeNothing, TakeOrder,
       TakeBad, TakeGarbage, WriteHandshake, WriteFrame, in_vars
  <2>2. CutClean /\ InStep
    BY <2>1, CutStays DEF FramesInTurn
  <2>3. CASE UNCHANGED <<base, m_offset, excess, socket>>
    <3>1. Cardinality(Backlog) <= excess + Cardinality(Pings)
      BY <2>1, <2>2, <2>3 DEF BacklogIsExcess
    <3>2. Backlog' = Backlog /\ Cardinality(Pings) <= Cardinality(Pings')
      BY <2>3, BacklogQuiet
    <3> QED
      BY <1>0, <2>3, <3>1, <3>2
  <2>4. ASSUME NEW i \in Frames, Takes(i), Shift(FrameEnd(i)), UNCHANGED socket
        PROVE  Cardinality(Backlog') <= excess' + Cardinality(Pings')
    <3>1. Cardinality(Backlog) <= excess + Cardinality(Pings)
      BY <2>1, <2>2, <2>4 DEF BacklogIsExcess
    <3>2. excess' = excess + Excess /\ Pings' = Pings
      BY <2>4 DEF Takes, Working, server_vars, Pings, Frames
    <3>3. Cardinality(Backlog') <= Cardinality(Backlog) + Excess
      BY <2>4, BacklogTaken
    <3> QED
      BY <1>0, <3>1, <3>2, <3>3
  <2>5. CASE NoFrameYet
    <3>1. PICK i \in Frames : InFront(i) /\ FrameEnd(i) = 0
      BY <2>5 DEF NoFrameYet
    <3>2. UNCHANGED <<sent, base>> /\ m_offset' = Got
      BY <2>5 DEF NoFrameYet, Working, server_vars
    <3>3. Cardinality(Backlog') <= Cardinality(Pings')
      BY <3>1, <3>2, BacklogWaits
    <3> QED
      BY <1>0, <3>3
  <2>6. CASE TakePing \/ TakeNothing
    <3>1. PICK i \in Frames : Takes(i) /\ Shift(FrameEnd(i)) /\ UNCHANGED socket
      BY <2>6 DEF TakePing, TakeNothing
    <3> QED
      BY <2>4, <3>1
  <2>7. CASE TakeOrder
    <3>1. PICK i \in Frames :
            /\ Takes(i)
            /\ (Shift(FrameEnd(i)) /\ UNCHANGED socket) \/ socket' = "closed"
      BY <2>7 DEF TakeOrder
    <3> QED
      BY <2>4, <3>1
  <2>8. CASE TakeBad \/ TakeGarbage
    BY <2>2, <2>8 DEF TakeBad, TakeGarbage
  <2>9. CASE StartRead \/ EndRead \/ ReadResponseInPieces
    BY <2>1, <2>3, <2>9 DEF StartRead, EndRead, ReadResponseInPieces
  <2>10. CASE Respond \/ (\E k \in Kinds : Send(k)) \/ Arrive \/ TakeOrders
    BY <2>3, <2>10 DEF Respond, Send, Arrive, TakeOrders, in_vars
  <2>11. CASE WriteHandshake \/ WriteFrame
    BY <2>3, <2>11 DEF WriteHandshake, WriteFrame, in_vars
  <2> QED
    BY <1>2, <2>5, <2>6, <2>7, <2>8, <2>9, <2>10, <2>11, NextCases DEF Work
<1> QED
  BY <1>1, <1>2

LEMMA RoomStays ==
  ASSUME Typed, Stream, Buffer, FramesInTurn, RoomForMore, Next
  PROVE  RoomForMore'
<1> SUFFICES ASSUME m_state' = "IN_WORK", CutClean', socket' = "open"
             PROVE  m_offset' < BUFFER_SIZE
                      \/ \E i \in Frames' : FrameOf(sent'[i].kind).size > BUFFER_SIZE
  BY DEF RoomForMore, FrameOf
<1>1. CASE ReadResponse
  BY <1>1, Sizes DEF ReadResponse
<1>2. CASE ~ ReadResponse
  <2>1. m_state = "IN_WORK" /\ UNCHANGED dropped
    BY <1>2 DEF Next, OnRead, OnWrite, Respond, Send, Arrive, TakeOrders, StartRead, EndRead,
       ReadResponseInPieces, Working, Takes, NoFrameYet, TakePing, TakeNothing, TakeOrder,
       TakeBad, TakeGarbage, WriteHandshake, WriteFrame, in_vars
  <2>2. CutClean /\ InStep
    BY <2>1, CutStays DEF FramesInTurn
  <2>3. CASE UNCHANGED <<m_offset, socket>>
    <3>1. m_offset < BUFFER_SIZE \/ \E i \in Frames : FrameOf(sent[i].kind).size > BUFFER_SIZE
      BY <2>1, <2>2, <2>3 DEF RoomForMore
    <3>2. \A i \in Frames : i \in Frames' /\ sent'[i] = sent[i]
      BY StreamGrows DEF Grown
    <3> QED
      BY <2>3, <3>1, <3>2
  <2>4. ASSUME NEW i \in Frames, Takes(i), Shift(FrameEnd(i))
        PROVE  m_offset' < BUFFER_SIZE
    <3>1. m_offset' = Got - FrameEnd(i)
      BY <2>4 DEF Shift
    <3>2. FrameEnd(i) \in Nat /\ FrameEnd(i) >= 2 /\ Got \in Nat /\ Got <= BUFFER_SIZE
      BY <2>4, TakesFacts, ReadFacts
    <3> QED
      BY <3>1, <3>2, Sizes
  <2>5. CASE NoFrameYet
    <3>1. PICK i \in Frames : InFront(i) /\ FrameEnd(i) = 0
      BY <2>5 DEF NoFrameYet
    <3>2. sent' = sent /\ Frames' = Frames /\ m_offset' = Got
      BY <2>5 DEF NoFrameYet, Working, server_vars, Frames
    <3>3. Got \in Nat /\ Got <= BUFFER_SIZE /\ base \in Nat
      BY ReadFacts DEF Typed
    <3>4. CASE Got = BUFFER_SIZE
      <4>1. EndAt(i) > base + Got
        BY <3>1, <3>4, WaitsFacts, Sizes
      <4>2. EndAt(i) = base + FrameOf(sent[i].kind).size /\ FrameOf(sent[i].kind).size \in Nat
        BY <3>1, EndAtFacts, FrameFacts DEF Stream, InFront
      <4>3. FrameOf(sent[i].kind).size > BUFFER_SIZE
        BY <3>3, <3>4, <4>1, <4>2
      <4> QED
        BY <3>2, <4>3
    <3> QED
      BY <3>2, <3>3, <3>4, Sizes
  <2>6. CASE TakePing \/ TakeNothing
    BY <2>4, <2>6 DEF TakePing, TakeNothing
  <2>7. CASE TakeOrder
    <3>1. PICK i \in Frames :
            /\ Takes(i)
            /\ (Shift(FrameEnd(i)) /\ UNCHANGED socket) \/ socket' = "closed"
      BY <2>7 DEF TakeOrder
    <3> QED
      BY <2>4, <3>1
  <2>8. CASE TakeBad \/ TakeGarbage
    BY <2>2, <2>8 DEF TakeBad, TakeGarbage
  <2>9. CASE StartRead \/ EndRead \/ ReadResponseInPieces
    BY <2>1, <2>3, <2>9 DEF StartRead, EndRead, ReadResponseInPieces
  <2>10. CASE Respond \/ (\E k \in Kinds : Send(k)) \/ Arrive \/ TakeOrders
    BY <2>3, <2>10 DEF Respond, Send, Arrive, TakeOrders, in_vars
  <2>11. CASE WriteHandshake \/ WriteFrame
    BY <2>3, <2>11 DEF WriteHandshake, WriteFrame, in_vars
  <2> QED
    BY <1>2, <2>5, <2>6, <2>7, <2>8, <2>9, <2>10, <2>11, NextCases DEF Work
<1> QED
  BY <1>1, <1>2

-------------------------------------------------------------------------------
(* The theorems. *)

LEMMA InitEstablishes == Init => Inv
<1> SUFFICES ASSUME Init PROVE Inv
  OBVIOUS
<1>1. Frames = {} /\ Len(sent) = 0 /\ sent \in Seq([kind : Kinds, end : Nat])
  BY DEF Init, Frames
<1>2. Typed
  <2>1. /\ m_output_queue \in Seq(OutputFrame) /\ written \in Seq(Nat \X Nat)
        /\ stored \in Seq(Nat \X Nat)
    BY DEF Init
  <2> QED
    BY <1>1, <2>1, Sizes DEF Init, Typed
<1>3. Stream
  BY <1>1 DEF Init, Stream, StreamSize
<1>4. Buffer
  BY Sizes DEF Init, Buffer
<1>5. Output
  <2>1. NextOutput = 1 /\ StartOf(1) = 0
    BY DEF Init, NextOutput, StartOf
  <2>2. m_output_queue = << >> /\ written = << >> /\ generated = 0
    BY DEF Init
  <2>3. OutputAfter(0)
    BY <2>1, <2>2 DEF OutputAfter
  <2> QED
    BY <2>3, Sizes DEF Output
<1> QED
  BY <1>2, <1>3, <1>4, <1>5 DEF Init, Inv, FramesInTurn, BacklogIsExcess, RoomForMore

LEMMA AlwaysInv == Spec => []Inv
<1>1. Inv /\ [Next]_vars => Inv'
  <2>1. Inv /\ Next => Inv'
    BY TypedStays, StreamStays, BufferStays, OutputStays, TurnStays, BacklogStays, RoomStays DEF Inv
  <2>2. Inv /\ UNCHANGED vars => Inv'
    <3> SUFFICES ASSUME Inv, UNCHANGED vars PROVE Inv'
      OBVIOUS
    <3>1. /\ UNCHANGED <<sent, responded, arrived, m_state, base, m_offset, reading, socket>>
          /\ UNCHANGED <<dropped, excess, m_output_queue, generated, written, stored, free>>
      BY DEF vars, server_vars, in_vars, out_vars, order_vars
    <3>2. Typed' /\ Stream' /\ Buffer' /\ Output'
      BY <3>1 DEF Inv, Typed, Stream, StreamSize, Buffer, Output, OutputAfter, NextOutput,
         Frames, EndAt
    <3>3. FramesInTurn' /\ BacklogIsExcess' /\ RoomForMore'
      BY <3>1 DEF Inv, FramesInTurn, StoredInTurn, PingsAnswered, BacklogIsExcess, RoomForMore,
         CutClean, InStep, Handled, LevelsOf, InFront, Backlog, Pings, Frames, EndAt
    <3> QED
      BY <3>2, <3>3 DEF Inv
  <2> QED
    BY <2>1, <2>2
<1> QED
  BY <1>1, InitEstablishes, PTL DEF Spec

(* Unless the response was cut off inside a frame, every frame is handled    *)
(* once and in turn, however the stream is cut into reads: the stored levels *)
(* are those of the frames passed, in their order, and the pings answered    *)
(* are theirs.                                                               *)
THEOREM AlwaysInTurn == Spec => []FramesInTurn
<1>1. Inv => FramesInTurn
  BY DEF Inv
<1> QED
  BY <1>1, AlwaysInv, PTL

(* Whole frames stay behind in the buffer only because several ended in one  *)
(* read, or because a ping came with nothing after it.                       *)
THEOREM BacklogAlwaysExcess == Spec => []BacklogIsExcess
<1>1. Inv => BacklogIsExcess
  BY DEF Inv
<1> QED
  BY <1>1, AlwaysInv, PTL

(* The buffer never stays full, unless a frame is larger than it.            *)
THEOREM AlwaysRoomForMore == Spec => []RoomForMore
<1>1. Inv => RoomForMore
  BY DEF Inv
<1> QED
  BY <1>1, AlwaysInv, PTL

(* The request and the queued frames go out whole and in the order in which  *)
(* they were queued, however the writes are cut.                             *)
THEOREM OutputAlwaysInTurn == Spec => []OutputInTurn
<1>1. Inv => OutputInTurn
  BY DEF Inv, Output, OutputAfter, OutputInTurn
<1> QED
  BY <1>1, AlwaysInv, PTL

===============================================================================
