------------------------------ MODULE TobProofs ------------------------------
(***************************************************************************)
(* Proofs about Tob, for every capacity of the queue, size of messages,    *)
(* set of prices and number of changes, and whichever connections break:   *)
(* what waits in the queue is an unbroken stretch of the feed; and the     *)
(* book the loop trusts is the exchange's book, because of how snapshot    *)
(* and feed join, by positions and by the second of the snapshot.          *)
(***************************************************************************)
EXTENDS Tob, FiniteSetTheorems, SequenceTheorems, WellFoundedInduction, TLAPS

-------------------------------------------------------------------------------
(* The queue is a stretch of the feed. *)

(* A change in the history of the exchange.                                *)
Change == [type : Side, timestamp : Nat, price : Price, amount : Amount, last : BOOLEAN]

Typed ==
  /\ now \in Nat /\ history \in Seq(Change) /\ queue \in Seq(Change)
  /\ received \in Nat /\ applied \in Nat /\ received <= Len(history)

(* QueueIsFeed, change by change.                                          *)
QueueFollows ==
  /\ Len(queue) = received - applied
  /\ \A i \in 1..Len(queue) : queue[i] = history[applied + i]

(* What on_read() still has to queue comes next in the feed.               *)
TodoFollows ==
  pc = "diff" =>
    /\ todo \in Seq(Change) /\ todo # << >> /\ received + Len(todo) <= Len(history)
    /\ \A i \in 1..Len(todo) : todo[i] = history[received + i]

(* Nothing is queued before the feed has a beginning.                      *)
NothingBeforeFeed == feed = "connecting" => queue = << >> /\ pc # "diff"

Inv == Typed /\ QueueFollows /\ TodoFollows /\ NothingBeforeFeed

LEMMA InvImpliesQueueIsFeed == Inv => QueueIsFeed
<1> SUFFICES ASSUME Inv PROVE queue = SubSeq(history, applied + 1, received)
  BY DEF QueueIsFeed
<1>1. /\ queue \in Seq(Change) /\ history \in Seq(Change) /\ Len(queue) \in Nat
      /\ Len(queue) = received - applied /\ applied \in Nat /\ received \in Nat
      /\ received <= Len(history) /\ Len(history) \in Nat
  BY LenProperties DEF Inv, Typed, QueueFollows
<1>2. \A i \in applied + 1..received : history[i] \in Change
  BY <1>1, ElementOfSeq
<1> DEFINE stretch == SubSeq(history, applied + 1, received)
<1>3. /\ stretch \in Seq(Change)
      /\ Len(stretch) = IF applied + 1 <= received THEN received - (applied + 1) + 1 ELSE 0
      /\ \A i \in 1..received - (applied + 1) + 1 : stretch[i] = history[(applied + 1) + i - 1]
  <2>1. ASSUME NEW f \in Int, NEW n \in Int, \A i \in f..n : history[i] \in Change
        PROVE  /\ SubSeq(history, f, n) \in Seq(Change)
               /\ Len(SubSeq(history, f, n)) = IF f <= n THEN n - f + 1 ELSE 0
               /\ \A i \in 1..n - f + 1 : SubSeq(history, f, n)[i] = history[f + i - 1]
    BY <2>1, SubSeqProperties
  <2>2. applied + 1 \in Int /\ received \in Int
    BY <1>1
  <2> QED
    BY <1>2, <2>1, <2>2
<1> HIDE DEF stretch
<1>4. Len(stretch) = Len(queue)
  <2>1. CASE applied + 1 <= received
    BY <1>1, <1>3, <2>1
  <2>2. CASE ~ (applied + 1 <= received)
    <3>1. Len(stretch) = 0
      BY <1>3, <2>2
    <3>2. Len(queue) = 0
      BY <1>1, <2>2
    <3> QED
      BY <3>1, <3>2
  <2> QED
    BY <2>1, <2>2
<1>5. \A i \in 1..Len(queue) : queue[i] = stretch[i]
  <2> SUFFICES ASSUME NEW i \in 1..Len(queue) PROVE queue[i] = stretch[i]
    OBVIOUS
  <2>1. i \in 1..received - (applied + 1) + 1 /\ (applied + 1) + i - 1 = applied + i
    BY <1>1
  <2>2. stretch[i] = history[applied + i]
    BY <1>3, <2>1
  <2> QED
    BY <2>2 DEF Inv, QueueFollows
<1>6. queue = stretch
  BY <1>1, <1>3, <1>4, <1>5, SeqEqual
<1> QED
  BY <1>6 DEF stretch

LEMMA InitEstablishes == Init => Inv
<1> SUFFICES ASSUME Init PROVE Inv
  OBVIOUS
<1>1. Len(history) = 0 /\ Len(queue) = 0 /\ history \in Seq(Change) /\ queue \in Seq(Change)
  BY EmptySeq DEF Init
<1> QED
  BY <1>1 DEF Init, Inv, Typed, QueueFollows, TodoFollows, NothingBeforeFeed

LEMMA PublishPreserves ==
  ASSUME Inv, NEW m \in Messages, Publish(m)
  PROVE  Inv'
<1> DEFINE new == Stamped(m, now)
<1>1. PICK n \in 1..MessageSize : m \in [1..n -> Level]
  BY DEF Messages
<1>2. n \in Nat /\ Len(m) = n
  BY <1>1, TobAssumption
<1>3. new \in Seq(Change)
  <2>1. \A i \in 1..n : m[i] \in Level
    BY <1>1
  <2>2. \A i \in 1..n : [type |-> m[i].type, timestamp |-> now, price |-> m[i].price,
                         amount |-> m[i].amount, last |-> i = n] \in Change
    BY <2>1 DEF Level, Change, Inv, Typed
  <2> QED
    BY <1>2, <2>2 DEF Stamped
<1>4. /\ history' = history \o new
      /\ UNCHANGED <<now, feed, received, pc, todo, queue, applied>>
  BY DEF Publish, feed_vars, client_vars, loop_vars
<1> HIDE DEF new
<1>5. /\ history' \in Seq(Change) /\ Len(history) \in Nat /\ Len(new) \in Nat
      /\ Len(history') = Len(history) + Len(new)
      /\ \A i \in 1..Len(history) : history'[i] = history[i]
  BY <1>3, <1>4, ConcatProperties, LenProperties DEF Inv, Typed
<1>6. Typed'
  BY <1>4, <1>5 DEF Inv, Typed
<1>7. QueueFollows'
  BY <1>4, <1>5 DEF Inv, Typed, QueueFollows
<1>8. TodoFollows'
  <2> SUFFICES ASSUME pc = "diff"
      PROVE  /\ todo \in Seq(Change) /\ todo # << >> /\ received + Len(todo) <= Len(history')
             /\ \A i \in 1..Len(todo) : todo[i] = history'[received + i]
    BY <1>4 DEF TodoFollows
  <2>1. /\ todo \in Seq(Change) /\ todo # << >> /\ received + Len(todo) <= Len(history)
        /\ \A i \in 1..Len(todo) : todo[i] = history[received + i]
        /\ Len(todo) \in Nat /\ received \in Nat
    BY LenProperties DEF Inv, Typed, TodoFollows
  <2>2. \A i \in 1..Len(todo) : received + i \in 1..Len(history)
    BY <1>5, <2>1
  <2> QED
    BY <1>5, <2>1, <2>2
<1> QED
  BY <1>4, <1>6, <1>7, <1>8 DEF Inv, NothingBeforeFeed

LEMMA NextPreserves == Inv /\ [Next]_vars => Inv'
<1> SUFFICES ASSUME Inv, [Next]_vars PROVE Inv'
  OBVIOUS
<1> USE DEF exchange_vars, feed_vars, client_vars, loop_vars
<1>0. /\ Len(history) \in Nat /\ Len(queue) \in Nat
      /\ history \in Seq(Change) /\ queue \in Seq(Change)
  BY LenProperties DEF Inv, Typed
<1>1. ASSUME NEW m \in Messages, Publish(m) PROVE Inv'
  BY <1>1, PublishPreserves
<1>2. CASE Subscribe
  <2>1. /\ feed = "connecting" /\ feed' = "open"
        /\ received' = Len(history) /\ applied' = Len(history)
        /\ UNCHANGED <<now, history, pc, todo, queue>>
    BY <1>2 DEF Subscribe
  <2>2. queue = << >> /\ Len(queue) = 0 /\ pc # "diff"
    BY <2>1, EmptySeq DEF Inv, NothingBeforeFeed
  <2> QED
    BY <1>0, <2>1, <2>2 DEF Inv, Typed, QueueFollows, TodoFollows, NothingBeforeFeed
<1>3. CASE ReadDiff
  <2>1. UNCHANGED <<now, history, feed, received, queue, applied>>
    BY <1>3 DEF ReadDiff
  <2>2. CASE UNCHANGED <<pc, todo>>
    BY <2>1, <2>2 DEF Inv, Typed, QueueFollows, TodoFollows, NothingBeforeFeed
  <2>3. ASSUME feed = "open", NEW j \in received + 1 .. Len(history),
               todo' = SubSeq(history, received + 1, j)
        PROVE  Inv'
    <3>1. received \in Nat /\ j \in Nat /\ received + 1 <= j /\ j <= Len(history)
      BY <1>0, <2>3 DEF Inv, Typed
    <3>2. \A i \in received + 1..j : history[i] \in Change
      BY <1>0, <3>1, ElementOfSeq
    <3>3. /\ todo' \in Seq(Change) /\ Len(todo') = j - (received + 1) + 1
          /\ \A i \in 1..j - (received + 1) + 1 : todo'[i] = history[(received + 1) + i - 1]
      BY <2>3, <3>1, <3>2, SubSeqProperties
    <3>4. Len(todo') = j - received /\ todo' # << >>
      BY <3>1, <3>3
    <3>5. \A i \in 1..Len(todo') : todo'[i] = history[received + i]
      BY <3>1, <3>3, <3>4
    <3>6. TodoFollows'
      BY <2>1, <3>1, <3>3, <3>4, <3>5 DEF TodoFollows
    <3> QED
      BY <2>1, <2>3, <3>6 DEF Inv, Typed, QueueFollows, NothingBeforeFeed
  <2> QED
    BY <1>3, <2>2, <2>3 DEF ReadDiff
<1>4. CASE QueueDiff
  <2>1. /\ pc = "diff" /\ UNCHANGED <<now, history, applied>>
        /\ todo \in Seq(Change) /\ todo # << >> /\ received + Len(todo) <= Len(history)
        /\ \A i \in 1..Len(todo) : todo[i] = history[received + i]
        /\ feed # "connecting" /\ Len(todo) \in Nat \ {0}
    BY <1>4, EmptySeq DEF QueueDiff, Inv, TodoFollows, NothingBeforeFeed
  <2>2. ASSUME queue' = Append(queue, Head(todo)), received' = received + 1,
               todo' = Tail(todo), feed' = feed,
               pc' = IF todo' = << >> THEN "events" ELSE "diff"
        PROVE  Inv'
    <3>1. Head(todo) \in Change /\ Head(todo) = history[received + 1]
      BY <2>1, HeadTailProperties DEF Inv, Typed
    <3>2. /\ todo' \in Seq(Change) /\ Len(todo') = Len(todo) - 1
          /\ \A i \in 1..Len(todo') : todo'[i] = todo[i + 1]
      BY <2>1, <2>2, HeadTailProperties
    <3>3. /\ queue' \in Seq(Change) /\ Len(queue') = Len(queue) + 1
          /\ \A i \in 1..Len(queue) : queue'[i] = queue[i]
          /\ queue'[Len(queue) + 1] = Head(todo)
      BY <1>0, <2>2, <3>1, AppendProperties
    <3>4. Typed'
      BY <2>1, <2>2, <3>3 DEF Inv, Typed
    <3>5. QueueFollows'
      <4>1. ASSUME NEW i \in 1..Len(queue') PROVE queue'[i] = history[applied + i]
        <5>1. CASE i \in 1..Len(queue)
          BY <3>3, <5>1 DEF Inv, QueueFollows
        <5>2. CASE i = Len(queue) + 1
          BY <1>0, <3>1, <3>3, <5>2 DEF Inv, Typed, QueueFollows
        <5> QED
          BY <1>0, <3>3, <5>1, <5>2
      <4>2. Len(queue') = received' - applied
        BY <1>0, <2>2, <3>3 DEF Inv, Typed, QueueFollows
      <4> QED
        BY <2>1, <4>1, <4>2 DEF QueueFollows
    <3>6. TodoFollows'
      <4>1. \A i \in 1..Len(todo') : todo'[i] = history[(received + 1) + i]
        BY <2>1, <3>2 DEF Inv, Typed
      <4>2. (received + 1) + Len(todo') <= Len(history)
        BY <2>1, <3>2 DEF Inv, Typed
      <4> QED
        BY <2>1, <2>2, <3>2, <4>1, <4>2 DEF TodoFollows
    <3> QED
      BY <2>1, <2>2, <3>4, <3>5, <3>6 DEF Inv, NothingBeforeFeed
  <2>3. ASSUME feed' = "closed", pc' = "events", UNCHANGED <<queue, received>>
        PROVE  Inv'
    BY <2>1, <2>3 DEF Inv, Typed, QueueFollows, TodoFollows, NothingBeforeFeed
  <2> QED
    BY <1>4, <2>2, <2>3 DEF QueueDiff
<1>5. CASE Drain
  <2>1. pc = "drain" /\ UNCHANGED <<now, history, feed, received, todo>>
    BY <1>5 DEF Drain
  <2>2. ASSUME queue # << >>, queue' = Tail(queue), applied' = applied + 1, pc' = pc
        PROVE  Inv'
    <3>1. /\ queue' \in Seq(Change) /\ Len(queue') = Len(queue) - 1
          /\ \A i \in 1..Len(queue') : queue'[i] = queue[i + 1]
      BY <1>0, <2>2, HeadTailProperties
    <3>2. Typed'
      BY <2>1, <2>2, <3>1 DEF Inv, Typed
    <3>3. QueueFollows'
      <4>1. Len(queue') = received - (applied + 1)
        BY <1>0, <3>1 DEF Inv, Typed, QueueFollows
      <4>2. \A i \in 1..Len(queue') : queue'[i] = history[(applied + 1) + i]
        BY <1>0, <3>1 DEF Inv, Typed, QueueFollows
      <4> QED
        BY <2>1, <2>2, <4>1, <4>2 DEF QueueFollows
    <3>4. feed # "connecting"
      BY <2>2 DEF Inv, NothingBeforeFeed
    <3> QED
      BY <2>1, <2>2, <3>2, <3>3, <3>4 DEF Inv, TodoFollows, NothingBeforeFeed
  <2>3. ASSUME pc' = "print", UNCHANGED <<queue, applied>>
        PROVE  Inv'
    BY <2>1, <2>3 DEF Inv, Typed, QueueFollows, TodoFollows, NothingBeforeFeed
  <2> QED
    BY <1>5, <2>2, <2>3 DEF Drain
<1>6. ASSUME UNCHANGED <<history, queue, received, applied>>, now' \in Nat,
             feed' = feed \/ feed' = "closed",
             (pc' = pc /\ (pc = "diff" => todo' = todo)) \/ pc' # "diff"
      PROVE  Inv'
  BY <1>6 DEF Inv, Typed, QueueFollows, TodoFollows, NothingBeforeFeed
<1>7. now \in Nat /\ now + 1 \in Nat
  BY DEF Inv, Typed
<1>8. CASE Tick \/ Answer \/ FeedBreaks \/ SnapshotBreaks \/ TimerRuns
  BY <1>6, <1>7, <1>8 DEF Tick, Answer, FeedBreaks, SnapshotBreaks, TimerRuns
<1>9. CASE Poll \/ EndEvents \/ CheckEmpty \/ Reject \/ Accept
  BY <1>6, <1>7, <1>9 DEF Poll, EndEvents, CheckEmpty, Reject, Accept
<1>10. CASE ReadSnapshot
  <2>1. pc = "events" /\ (pc' = "snapshot" \/ pc' = pc)
    BY <1>10 DEF ReadSnapshot
  <2>2. UNCHANGED <<now, history, queue, received, applied, feed>>
    BY <1>10 DEF ReadSnapshot
  <2> QED
    BY <1>6, <1>7, <2>1, <2>2
<1>11. CASE AddSnapshot
  <2>1. pc = "snapshot" /\ (pc' = "events" \/ pc' = pc)
    BY <1>11 DEF AddSnapshot
  <2>2. UNCHANGED <<now, history, queue, received, applied, feed>>
    BY <1>11 DEF AddSnapshot
  <2> QED
    BY <1>6, <1>7, <2>1, <2>2
<1>12. CASE PrintBook
  <2>1. pc' # "diff" /\ UNCHANGED <<now, history, queue, received, applied, feed>>
    BY <1>12 DEF PrintBook
  <2> QED
    BY <1>6, <1>7, <2>1
<1>13. CASE UNCHANGED vars
  BY <1>6, <1>7, <1>13 DEF vars
<1> QED
  BY <1>1, <1>2, <1>3, <1>4, <1>5, <1>8, <1>9, <1>10, <1>11, <1>12, <1>13 DEF Next, Loop

(* The queue never holds a change twice, out of order or with a gap before *)
(* the next, also when an exception cuts a message in its middle, and      *)
(* however the rounds of the loop and the two sockets take turns.          *)
THEOREM QueueIsAlwaysFeed == Spec => []QueueIsFeed
BY InitEstablishes, NextPreserves, InvImpliesQueueIsFeed, PTL DEF Spec

-------------------------------------------------------------------------------
(* The last change of a level. *)

(* A non-empty set of positions has a greatest element.                    *)
LEMMA LastPosition ==
  ASSUME NEW n \in Nat, NEW S, S \subseteq 1..n, S # {}
  PROVE  Max(S) \in S /\ \A y \in S : y <= Max(S)
<1> DEFINE Left == {n - x : x \in S}
           Smaller == {ss \in Nat \X Nat : ss[1] < ss[2]}
<1>1. Left \subseteq Nat /\ Left # {}
  <2>1. PICK x \in S : TRUE
    OBVIOUS
  <2>2. n - x \in Left
    OBVIOUS
  <2> QED
    BY <2>2
<1>2. IsWellFoundedOn(Smaller, Nat)
  BY NatLessThanWellFounded DEF OpToRel
<1> HIDE DEF Smaller
<1>3. PICK k \in Left : \A y \in Left : ~ (<<y, k>> \in Smaller)
  <2> HIDE DEF Left
  <2> QED
    BY <1>1, <1>2, WFMin
<1>4. \A y \in Left : ~ (y < k)
  BY <1>1, <1>3 DEF Smaller
<1>5. PICK x \in S : k = n - x
  OBVIOUS
<1>6. \A y \in S : x >= y
  <2> SUFFICES ASSUME NEW y \in S PROVE x >= y
    OBVIOUS
  <2>1. ~ (n - y < n - x) /\ x \in Nat /\ y \in Nat
    BY <1>4, <1>5
  <2> QED
    BY <2>1
<1>7. Max(S) \in S /\ \A y \in S : Max(S) >= y
  BY <1>6 DEF Max
<1>8. \A y \in S : y \in Nat
  OBVIOUS
<1> QED
  BY <1>7, <1>8

LEMMA LastPositionIs ==
  ASSUME NEW n \in Nat, NEW S, S \subseteq 1..n, NEW x \in S, \A y \in S : y <= x
  PROVE  Max(S) = x
<1> DEFINE m == Max(S)
<1>1. m \in S /\ \A y \in S : y <= m
  BY LastPosition
<1> HIDE DEF m
<1>2. m \in 1..n /\ x \in 1..n
  BY <1>1
<1>3. x <= m /\ m <= x
  BY <1>1
<1>4. m = x
  BY <1>2, <1>3
<1> QED
  BY <1>4 DEF m

LEMMA LaterOfTwo ==
  ASSUME NEW a \in Nat, NEW b \in Nat
  PROVE  Max({a, b}) = IF a <= b THEN b ELSE a
<1> DEFINE m == IF a <= b THEN b ELSE a
<1>1. m \in {a, b} /\ \A y \in {a, b} : m >= y
  OBVIOUS
<1>2. \A x \in {a, b} : (\A y \in {a, b} : x >= y) => x = m
  OBVIOUS
<1> QED
  BY <1>1, <1>2 DEF Max

(* One change more: it is the last of its level, and of no other.          *)
LEMMA NextChange ==
  ASSUME NEW s \in Side, NEW q \in Price, NEW p \in Nat
  PROVE  /\ history[p + 1].type = s /\ history[p + 1].price = q =>
              /\ TruthAt(s, q, p + 1) = history[p + 1].amount
              /\ p + 1 \in Changes(s, q, p + 1)
         /\ ~ (history[p + 1].type = s /\ history[p + 1].price = q) =>
              /\ Changes(s, q, p + 1) = Changes(s, q, p)
              /\ TruthAt(s, q, p + 1) = TruthAt(s, q, p)
<1>1. ASSUME history[p + 1].type = s, history[p + 1].price = q
      PROVE  TruthAt(s, q, p + 1) = history[p + 1].amount /\ p + 1 \in Changes(s, q, p + 1)
  <2>1. /\ p + 1 \in Changes(s, q, p + 1) /\ Changes(s, q, p + 1) \subseteq 1..p + 1
        /\ \A y \in Changes(s, q, p + 1) : y <= p + 1
    BY <1>1 DEF Changes
  <2>2. Max(Changes(s, q, p + 1)) = p + 1
    BY <2>1, LastPositionIs
  <2> QED
    BY <2>1, <2>2 DEF TruthAt
<1>2. ASSUME ~ (history[p + 1].type = s /\ history[p + 1].price = q)
      PROVE  Changes(s, q, p + 1) = Changes(s, q, p)
  BY <1>2 DEF Changes
<1> QED
  BY <1>1, <1>2 DEF TruthAt

(* No change between two positions: the same truth.                        *)
LEMMA NoChangeBetween ==
  ASSUME NEW s, NEW q, NEW a \in Nat, NEW b \in Nat, a <= b,
         \A i \in Changes(s, q, b) : i <= a
  PROVE  Changes(s, q, b) = Changes(s, q, a) /\ TruthAt(s, q, b) = TruthAt(s, q, a)
<1>1. Changes(s, q, b) = Changes(s, q, a)
  BY DEF Changes
<1> QED
  BY <1>1 DEF TruthAt

(* The last change up to a position, if it lies behind all others.         *)
LEMMA LastChange ==
  ASSUME NEW s, NEW q, NEW p \in Nat, NEW i \in Changes(s, q, p),
         \A j \in Changes(s, q, p) : j <= i
  PROVE  Max(Changes(s, q, p)) = i /\ TruthAt(s, q, p) = history[i].amount
<1>1. Changes(s, q, p) \subseteq 1..p /\ Changes(s, q, p) # {}
  BY DEF Changes
<1>2. Max(Changes(s, q, p)) = i
  BY <1>1, LastPositionIs
<1> QED
  BY <1>1, <1>2 DEF TruthAt

(* What was published stays as it was.                                     *)
LEMMA PastStays ==
  ASSUME NEW n \in Nat, \A i \in 1..n : history'[i] = history[i],
         NEW s, NEW q, NEW p \in 0..n
  PROVE  Changes(s, q, p)' = Changes(s, q, p) /\ TruthAt(s, q, p)' = TruthAt(s, q, p)
<1>1. Changes(s, q, p)' = Changes(s, q, p)
  BY DEF Changes
<1>2. Changes(s, q, p) # {} => Max(Changes(s, q, p)) \in 1..n
  <2>1. Changes(s, q, p) \subseteq 1..p
    BY DEF Changes
  <2> QED
    BY <2>1, LastPosition
<1> QED
  BY <1>1, <1>2 DEF TruthAt

-------------------------------------------------------------------------------
(* The invariant. *)

T == snapshot.timestamp

SnapshotOrder == [type : Side, timestamp : Nat, price : Price, amount : Amount]

BookTyped ==
  /\ amount \in [Side -> [Price -> Amount]]
  /\ last_timestamp \in Nat /\ last_timestamp <= now
  /\ subscribed \in Nat /\ order_book_ready \in BOOLEAN
  /\ snapshot \in [state : {"none", "requested", "answered", "broken", "closed", "cut"},
                   position : Nat, timestamp : Nat]
  /\ pc = "snapshot" => todo \in Seq(SnapshotOrder)

(* The exchange: its clock does not go back, and a message changes a level *)
(* once.                                                                   *)
HistoryOrdered ==
  /\ now \in 1..MaxTime
  /\ \A i \in 1..Len(history) : history[i].timestamp \in 1..now
  /\ \A i, j \in 1..Len(history) : i <= j => history[i].timestamp <= history[j].timestamp
  /\ \A i, j \in 1..Len(history) :
       i < j /\ history[i].type = history[j].type /\ history[i].price = history[j].price =>
         \E k \in i..j - 1 : history[k].last
  /\ Len(history) > 0 => history[Len(history)].last

(* The feed starts between two messages, and nothing of it is taken before *)
(* the loop has accepted its book.                                         *)
FeedStart ==
  /\ subscribed <= Len(history) /\ subscribed <= applied
  /\ subscribed > 0 => history[subscribed].last
  /\ ~ order_book_ready => applied = subscribed
  /\ order_book_ready => feed # "connecting"

(* The snapshot divides the history by its second.                         *)
SnapshotTimed ==
  /\ snapshot.position <= Len(history)
  /\ snapshot.state \in {"answered", "closed", "cut"} =>
       /\ T \in 1..now
       /\ \A i \in 1..Len(history) :
            IF i <= snapshot.position THEN history[i].timestamp <= T ELSE history[i].timestamp >= T

NotFetched ==
  snapshot.state \in {"none", "requested", "answered", "broken"} /\ pc # "snapshot" =>
    ~ order_book_ready /\ amount = Book!NoLevels /\ last_timestamp = 0

(* While process_json() adds the levels: each is right or yet to come.     *)
Filling ==
  pc = "snapshot" =>
    /\ snapshot.state = "answered" /\ ~ order_book_ready
    /\ last_timestamp \in {0, T}
    /\ last_timestamp = 0 => amount = Book!NoLevels
    /\ \A i \in 1..Len(todo) :
         /\ todo[i].timestamp = T
         /\ todo[i].amount = TruthAt(todo[i].type, todo[i].price, snapshot.position)
    /\ \A s \in Side, q \in Price :
         \/ amount[s][q] = TruthAt(s, q, snapshot.position)
         \/ amount[s][q] = 0 /\ \E i \in 1..Len(todo) : todo[i].type = s /\ todo[i].price = q

Filled ==
  snapshot.state \in {"closed", "cut"} /\ ~ order_book_ready =>
    /\ Book!NonEmpty => last_timestamp = T
    /\ \A s \in Side, q \in Price :
         \/ amount[s][q] = TruthAt(s, q, snapshot.position)
         \/ snapshot.state = "cut" /\ amount[s][q] = 0

(* What Accept has made sure of: changes the feed lacks are of the second  *)
(* of the snapshot, and what is still to be taken is not too old.          *)
Joined ==
  order_book_ready =>
    /\ \A i \in snapshot.position + 1 .. subscribed : history[i].timestamp = T
    /\ snapshot.position < subscribed => SharedSecond
    /\ last_timestamp >= T
    /\ applied <= snapshot.position => last_timestamp = T
    /\ \A i \in 1..Len(history) :
         i > applied /\ i > snapshot.position => history[i].timestamp >= last_timestamp

(* Position and Tied, with the feed taken up to a.                         *)
Latest(a) == IF snapshot.position <= a THEN a ELSE snapshot.position

TiedAt(s, q, p) ==
  \E i \in Changes(s, q, p) :
    /\ \A j \in Changes(s, q, p) : j <= i
    /\ i > snapshot.position /\ i <= subscribed /\ history[i].timestamp = T

(* The snapshot holds a change of the level that the feed has still to     *)
(* bring, in the second of the snapshot: until then an earlier change of   *)
(* that second may stand in the book.                                      *)
BehindAt(s, q, a) ==
  /\ a < snapshot.position /\ SharedSecond
  /\ \E i \in Changes(s, q, snapshot.position) : i > a /\ history[i].timestamp = T

Explained(s, q, x, a) ==
  \/ x = TruthAt(s, q, Latest(a))
  \/ SharedSecond /\ TiedAt(s, q, Latest(a))
  \/ BehindAt(s, q, a)
  \/ snapshot.state = "cut" /\ x = 0 /\ Changes(s, q, Latest(a)) \subseteq 1 .. snapshot.position

LevelsExplained ==
  order_book_ready => \A s \in Side, q \in Price : Explained(s, q, amount[s][q], applied)

Rounds ==
  /\ pc \in {"drain", "print"} => order_book_ready
  /\ pc = "print" => queue = << >>
  /\ order_book_ready /\ pc = "poll" => queue = << >> \/ ~ Book!NonEmpty
  /\ crashed => order_book_ready /\ Book!Levels("SELL") = {}

BookInv ==
  /\ BookTyped /\ HistoryOrdered /\ FeedStart /\ SnapshotTimed /\ NotFetched /\ Filling
  /\ Filled /\ Joined /\ LevelsExplained /\ Rounds

LEMMA HistoryTyped ==
  ASSUME Inv
  PROVE  /\ Len(history) \in Nat /\ DOMAIN history = 1..Len(history)
         /\ \A i \in 1..Len(history) :
              /\ history[i] \in Change
              /\ history[i].type \in Side /\ history[i].price \in Price
              /\ history[i].amount \in Amount /\ history[i].timestamp \in Nat
              /\ history[i].last \in BOOLEAN
         /\ applied \in Nat /\ received \in Nat /\ applied <= received /\ received <= Len(history)
<1>1. history \in Seq(Change) /\ Len(history) \in Nat /\ DOMAIN history = 1..Len(history)
  BY LenProperties DEF Inv, Typed
<1>2. \A i \in 1..Len(history) : history[i] \in Change
  BY <1>1, ElementOfSeq
<1>3. Len(queue) \in Nat
  BY LenProperties DEF Inv, Typed
<1> QED
  BY <1>1, <1>2, <1>3 DEF Inv, Typed, QueueFollows, Change

LEMMA PositionIsLatest ==
  ASSUME Inv, BookTyped
  PROVE  Position = Latest(applied) /\ Position \in Nat
<1>1. snapshot.position \in Nat /\ applied \in Nat
  BY HistoryTyped DEF BookTyped
<1>2. Max({snapshot.position, applied}) = IF snapshot.position <= applied THEN applied ELSE snapshot.position
  BY <1>1, LaterOfTwo
<1>3. Position = Latest(applied)
  BY <1>2 DEF Position, Latest
<1> QED
  BY <1>1, <1>3, HistoryTyped DEF Latest

(* The invariant says what the three properties say.                       *)
LEMMA BookInvImpliesBookIsTruth == Inv /\ BookInv => BookIsTruth
<1> SUFFICES ASSUME Inv, BookInv, order_book_ready, NEW s \in Side, NEW q \in Price
    PROVE  \/ amount[s][q] = TruthAt(s, q, Position)
           \/ SharedSecond /\ (Tied(s, q) \/ applied < snapshot.position)
           \/ CutOff(s, q)
  BY DEF BookIsTruth
<1>1. Position = Latest(applied) /\ Position \in Nat /\ snapshot.position \in Nat
  BY PositionIsLatest DEF BookInv, BookTyped
<1>2. Explained(s, q, amount[s][q], applied)
  BY DEF BookInv, LevelsExplained
<1>3. CASE amount[s][q] = TruthAt(s, q, Latest(applied))
  BY <1>1, <1>3
<1>4. CASE SharedSecond /\ TiedAt(s, q, Latest(applied))
  <2>1. PICK i \in Changes(s, q, Position) :
          /\ \A j \in Changes(s, q, Position) : j <= i
          /\ i > snapshot.position /\ i <= subscribed /\ history[i].timestamp = T
    BY <1>1, <1>4 DEF TiedAt
  <2>2. i = Max(Changes(s, q, Position))
    BY <1>1, <2>1, LastChange
  <2>3. i \in snapshot.position + 1 .. subscribed
    <3>1. i \in 1..Position
      BY DEF Changes
    <3> QED
      BY <1>1, <2>1, <3>1 DEF BookInv, BookTyped
  <2>4. Tied(s, q)
    BY <2>1, <2>2, <2>3 DEF Tied, T
  <2> QED
    BY <1>4, <2>4
<1>5. CASE BehindAt(s, q, applied)
  BY <1>5 DEF BehindAt
<1>6. CASE /\ snapshot.state = "cut" /\ amount[s][q] = 0
           /\ Changes(s, q, Latest(applied)) \subseteq 1 .. snapshot.position
  BY <1>1, <1>6 DEF CutOff
<1> QED
  BY <1>2, <1>3, <1>4, <1>5, <1>6 DEF Explained

LEMMA ReliableIsTruth ==
  ASSUME Inv, BookInv, order_book_ready, Reliable, NEW s \in Side, NEW q \in Price
  PROVE  amount[s][q] = TruthAt(s, q, Position)
BY BookInvImpliesBookIsTruth DEF BookIsTruth, Reliable, CutOff

LEMMA BookInvImpliesStalls == Inv /\ BookInv => StallsOnlyOnEmptyMarket
<1> SUFFICES ASSUME Inv, BookInv, order_book_ready, Reliable, pc = "poll", queue # << >>
    PROVE  Truth(Position) = Book!NoLevels
  BY DEF StallsOnlyOnEmptyMarket
<1>1. ~ Book!NonEmpty
  BY DEF BookInv, Rounds
<1>2. \A s \in Side, q \in Price : amount[s][q] = 0
  BY <1>1 DEF Book!NonEmpty, Book!Levels, Side
<1>3. \A s \in Side, q \in Price : TruthAt(s, q, Position) = 0
  BY <1>2, ReliableIsTruth
<1> QED
  BY <1>3 DEF Truth, Book!NoLevels, Side

LEMMA BookInvImpliesDies == Inv /\ BookInv => DiesOnlyWithoutAsks
<1> SUFFICES ASSUME Inv, BookInv, crashed, Reliable, NEW q \in Price
    PROVE  TruthAt("SELL", q, Position) = 0
  BY DEF DiesOnlyWithoutAsks
<1>1. order_book_ready /\ amount["SELL"][q] = 0
  BY DEF BookInv, Rounds, Book!Levels
<1>2. "SELL" \in Side
  BY DEF Side, Book!Side
<1> QED
  BY <1>1, <1>2, ReliableIsTruth

LEMMA BookInit == Init => BookInv
<1> SUFFICES ASSUME Init PROVE BookInv
  OBVIOUS
<1>1. /\ now = 1 /\ history = << >> /\ Len(history) = 0 /\ subscribed = 0 /\ applied = 0
      /\ snapshot = [state |-> "requested", position |-> 0, timestamp |-> 0]
      /\ pc = "poll" /\ order_book_ready = FALSE /\ feed = "connecting"
      /\ amount = Book!NoLevels /\ last_timestamp = 0 /\ crashed = FALSE
  BY EmptySeq DEF Init, Request, Book!Init
<1>2. BookTyped
  <2>1. amount \in [Side -> [Price -> Amount]]
    BY <1>1, TobAssumption DEF Book!NoLevels, Side, Book!Side
  <2>2. last_timestamp \in Nat /\ last_timestamp <= now /\ subscribed \in Nat
    BY <1>1
  <2> QED
    BY <1>1, <2>1, <2>2 DEF BookTyped
<1>3. HistoryOrdered /\ FeedStart
  BY <1>1, TobAssumption DEF HistoryOrdered, FeedStart
<1>4. SnapshotTimed /\ NotFetched
  BY <1>1 DEF SnapshotTimed, NotFetched
<1>5. Filling /\ Filled /\ Joined /\ LevelsExplained /\ Rounds
  BY <1>1 DEF Filling, Filled, Joined, LevelsExplained, Rounds
<1> QED
  BY <1>2, <1>3, <1>4, <1>5 DEF BookInv

-------------------------------------------------------------------------------
(* The steps. *)

LEMMA SameTruth ==
  ASSUME history' = history
  PROVE  \A s, q, p : Changes(s, q, p)' = Changes(s, q, p) /\ TruthAt(s, q, p)' = TruthAt(s, q, p)
BY DEF TruthAt, Changes

(* Nothing the invariant is about changes, but for the time.               *)
LEMMA FrameKeeps ==
  ASSUME Inv, BookInv,
         UNCHANGED <<history, subscribed, applied, order_book_ready, amount, last_timestamp, snapshot>>,
         now' \in now..MaxTime, feed' = feed \/ feed' = "closed",
         (pc' = "snapshot") = (pc = "snapshot"), pc = "snapshot" => todo' = todo,
         Rounds'
  PROVE  BookInv'
<1>0. now \in Nat /\ now' \in Nat /\ now <= now' /\ now' <= MaxTime /\ MaxTime \in Nat
  BY TobAssumption DEF Inv, Typed
<1>1. BookTyped'
  BY <1>0 DEF BookInv, BookTyped
<1>2. HistoryOrdered'
  BY <1>0 DEF BookInv, HistoryOrdered
<1>3. FeedStart' /\ NotFetched'
  BY DEF BookInv, FeedStart, NotFetched
<1>4. SnapshotTimed'
  BY <1>0 DEF BookInv, SnapshotTimed, T
<1>5. Filling'
  <2> SUFFICES ASSUME pc' = "snapshot" PROVE Filling'
    BY DEF Filling
  <2>1. Filling /\ pc = "snapshot" /\ todo' = todo
    BY DEF BookInv
  <2> HIDE DEF BookInv
  <2>2. /\ snapshot'.state = "answered" /\ ~ order_book_ready'
        /\ last_timestamp' \in {0, T'} /\ (last_timestamp' = 0 => amount' = Book!NoLevels)
    BY <2>1 DEF Filling, T
  <2>3. \A i \in 1..Len(todo') :
          /\ todo'[i].timestamp = T'
          /\ todo'[i].amount = TruthAt(todo[i].type, todo[i].price, snapshot.position)'
    BY <2>1, SameTruth DEF Filling, T
  <2>4. \A s \in Side, q \in Price :
          \/ amount'[s][q] = TruthAt(s, q, snapshot.position)'
          \/ amount'[s][q] = 0 /\ \E i \in 1..Len(todo') : todo'[i].type = s /\ todo'[i].price = q
    BY <2>1, SameTruth DEF Filling
  <2> QED
    BY <2>2, <2>3, <2>4 DEF Filling
<1>6. Filled'
  BY DEF BookInv, Filled, T, TruthAt, Changes, Book!NonEmpty, Book!Levels
<1>7. Joined'
  BY DEF BookInv, Joined, T, SharedSecond
<1>8. LevelsExplained'
  <2> SUFFICES ASSUME order_book_ready, NEW s \in Side, NEW q \in Price
      PROVE  Explained(s, q, amount[s][q], applied)'
    BY DEF LevelsExplained
  <2>1. Explained(s, q, amount[s][q], applied)
    BY DEF BookInv, LevelsExplained
  <2> QED
    BY <2>1, SameTruth DEF Explained, Latest, TiedAt, BehindAt, T, SharedSecond
<1> QED
  BY <1>1, <1>2, <1>3, <1>4, <1>5, <1>6, <1>7, <1>8 DEF BookInv

LEMMA FrameSteps ==
  ASSUME Inv, BookInv,
         \/ Tick \/ FeedBreaks \/ TimerRuns \/ Poll \/ ReadDiff \/ QueueDiff \/ EndEvents \/ PrintBook
         \/ UNCHANGED vars
  PROVE  BookInv'
<1> USE DEF exchange_vars, feed_vars, loop_vars, book_vars, client_vars
<1>0. now \in 1..MaxTime /\ MaxTime \in Nat /\ Rounds
  BY TobAssumption DEF BookInv, HistoryOrdered
<1>1. CASE Tick
  <2>1. Rounds'
    BY <1>0, <1>1 DEF Tick, Rounds, Book!NonEmpty, Book!Levels
  <2>2. now' \in now..MaxTime
    BY <1>0, <1>1 DEF Tick
  <2> QED
    BY <1>1, <2>1, <2>2, FrameKeeps DEF Tick
<1>2. now \in now..MaxTime
  BY <1>0
<1>3. CASE FeedBreaks \/ TimerRuns \/ UNCHANGED vars
  <2>1. Rounds'
    BY <1>0, <1>3 DEF FeedBreaks, TimerRuns, vars, Rounds, Book!NonEmpty, Book!Levels
  <2> QED
    BY <1>2, <1>3, <2>1, FrameKeeps DEF FeedBreaks, TimerRuns, vars
<1>4. CASE Poll \/ EndEvents
  <2>1. Rounds'
    BY <1>0, <1>4 DEF Poll, EndEvents, Rounds, Book!Levels
  <2> QED
    BY <1>2, <1>4, <2>1, FrameKeeps DEF Poll, EndEvents
<1>5. CASE ReadDiff
  <2>1. pc = "events" /\ pc' \in {"events", "diff"}
    BY <1>5 DEF ReadDiff
  <2>2. Rounds'
    BY <1>0, <1>5, <2>1 DEF ReadDiff, Rounds, Book!Levels
  <2> QED
    BY <1>2, <1>5, <2>1, <2>2, FrameKeeps DEF ReadDiff
<1>6. CASE QueueDiff
  <2>1. pc = "diff" /\ pc' \in {"events", "diff"}
    BY <1>6 DEF QueueDiff
  <2>2. Rounds'
    BY <1>0, <1>6, <2>1 DEF QueueDiff, Rounds, Book!Levels
  <2> QED
    BY <1>2, <1>6, <2>1, <2>2, FrameKeeps DEF QueueDiff
<1>7. CASE PrintBook
  <2>1. /\ pc = "print" /\ pc' \in {"dead", "poll"} /\ queue' = queue /\ queue = << >>
        /\ order_book_ready' = order_book_ready /\ order_book_ready /\ amount' = amount
        /\ UNCHANGED <<history, subscribed, applied, last_timestamp, snapshot, now, feed, todo>>
    BY <1>0, <1>7 DEF PrintBook, Rounds, Book!PrintBook
  <2>2. crashed' => Book!Levels("SELL")' = {}
    <3>1. Book!Levels("SELL")' = Book!Levels("SELL")
      BY <2>1 DEF Book!Levels
    <3>2. CASE UNCHANGED book_vars
      BY <1>0, <3>1, <3>2 DEF Rounds
    <3>3. CASE Book!PrintBook
      BY <3>1, <3>3 DEF Book!PrintBook
    <3> QED
      BY <1>7, <3>2, <3>3 DEF PrintBook
  <2>3. Rounds'
    BY <2>1, <2>2 DEF Rounds
  <2> QED
    BY <1>2, <2>1, <2>3, FrameKeeps
<1> QED
  BY <1>1, <1>3, <1>4, <1>5, <1>6, <1>7

LEMMA PublishKeeps ==
  ASSUME Inv, BookInv, NEW m \in Messages, Publish(m)
  PROVE  BookInv'
<1> USE DEF feed_vars, client_vars, loop_vars, book_vars
<1> DEFINE L == Len(history)
           new == Stamped(m, now)
<1>1. PICK n \in 1..MessageSize : m \in [1..n -> Level]
  BY DEF Messages
<1>2. n \in Nat /\ n > 0 /\ Len(m) = n
  BY <1>1, TobAssumption
<1>3. /\ new \in Seq(Change) /\ Len(new) = n
      /\ \A i \in 1..n : /\ new[i].type = m[i].type /\ new[i].price = m[i].price
                         /\ new[i].timestamp = now /\ new[i].last = (i = n)
  <2>1. \A i \in 1..n : m[i] \in Level
    BY <1>1
  <2>2. \A i \in 1..n : [type |-> m[i].type, timestamp |-> now, price |-> m[i].price,
                         amount |-> m[i].amount, last |-> i = n] \in Change
    BY <2>1 DEF Level, Change, Inv, Typed
  <2> QED
    BY <1>2, <2>2 DEF Stamped
<1>4. /\ history' = history \o new
      /\ UNCHANGED <<now, feed, subscribed, received, snapshot, pc, pending, todo, queue,
                     order_book_ready, elapsed, applied, amount, last_timestamp, crashed>>
  BY DEF Publish
<1> HIDE DEF new
<1>5. /\ L \in Nat /\ Len(history') = L + n
      /\ \A i \in 1..L : history'[i] = history[i]
      /\ \A i \in 1..n : history'[L + i] = new[i]
  <2>1. /\ L \in Nat /\ Len(history') = L + n
        /\ \A i \in 1..L + n : history'[i] = IF i <= L THEN history[i] ELSE new[i - L]
    BY <1>3, <1>4, ConcatProperties, LenProperties DEF Inv, Typed
  <2> HIDE DEF L
  <2>2. \A i \in 1..L : i \in 1..L + n /\ i <= L
    BY <1>2, <2>1
  <2>3. \A i \in 1..n : L + i \in 1..L + n /\ ~ (L + i <= L) /\ (L + i) - L = i
    BY <1>2, <2>1
  <2> QED
    BY <2>1, <2>2, <2>3 DEF L
<1>6. \A i \in 1..L + n : i \in 1..L \/ (i - L \in 1..n /\ history'[i] = new[i - L])
  BY <1>2, <1>5
<1>7. \A s, q : \A p \in 0..L : Changes(s, q, p)' = Changes(s, q, p) /\ TruthAt(s, q, p)' = TruthAt(s, q, p)
  BY <1>5, PastStays
<1>8. /\ now \in 1..MaxTime /\ MaxTime \in Nat /\ snapshot.position \in 0..L /\ applied \in 0..L
      /\ subscribed \in 0..L /\ Latest(applied) \in 0..L
  BY HistoryTyped, TobAssumption DEF BookInv, BookTyped, HistoryOrdered, SnapshotTimed, FeedStart, Latest
<1>9. BookTyped'
  BY <1>4 DEF BookInv, BookTyped
<1>10. HistoryOrdered'
  <2>1. now' \in 1..MaxTime /\ \A i \in 1..Len(history') : history'[i].timestamp \in 1..now'
    BY <1>3, <1>4, <1>5, <1>6, <1>8 DEF BookInv, HistoryOrdered
  <2>2. ASSUME NEW i \in 1..L + n, NEW j \in 1..L + n, i <= j
        PROVE  history'[i].timestamp <= history'[j].timestamp
    <3>1. \A k \in 1..L : history[k].timestamp \in 1..now
      BY DEF BookInv, HistoryOrdered
    <3>2. CASE j \in 1..L
      BY <1>5, <2>2, <3>2 DEF BookInv, HistoryOrdered
    <3>3. CASE j - L \in 1..n /\ history'[j] = new[j - L]
      <4>1. history'[j].timestamp = now
        BY <1>3, <3>3
      <4>2. history'[i].timestamp \in 1..now
        BY <1>4, <1>5, <2>1
      <4> QED
        BY <1>8, <4>1, <4>2
    <3> QED
      BY <1>6, <3>2, <3>3
  <2>3. ASSUME NEW i \in 1..L + n, NEW j \in 1..L + n, i < j,
               history'[i].type = history'[j].type, history'[i].price = history'[j].price
        PROVE  \E k \in i..j - 1 : history'[k].last
    <3>1. CASE j \in 1..L
      <4>1. i \in 1..L /\ i..j - 1 \subseteq 1..L
        BY <1>5, <2>3, <3>1
      <4>2. history[i].type = history[j].type /\ history[i].price = history[j].price
        BY <1>5, <2>3, <3>1, <4>1
      <4>3. \E k \in i..j - 1 : history[k].last
        BY <2>3, <3>1, <4>1, <4>2 DEF BookInv, HistoryOrdered
      <4> QED
        BY <1>5, <4>1, <4>3
    <3>2. CASE i \in 1..L /\ j - L \in 1..n
      <4>1. history[L].last /\ L \in i..j - 1 /\ L \in 1..L
        BY <1>2, <1>5, <2>3, <3>2 DEF BookInv, HistoryOrdered
      <4> QED
        BY <1>5, <4>1
    <3>3. CASE i - L \in 1..n /\ j - L \in 1..n
      <4>1. history'[i] = new[i - L] /\ history'[j] = new[j - L] /\ i - L # j - L
        BY <1>2, <1>5, <1>6, <2>3, <3>3
      <4>2. m[i - L].type = m[j - L].type /\ m[i - L].price = m[j - L].price
        BY <1>3, <2>3, <3>3, <4>1
      <4>3. DOMAIN m = 1..n
        BY <1>1
      <4> QED
        BY <3>3, <4>1, <4>2, <4>3 DEF Messages
    <3> QED
      BY <1>5, <1>6, <2>3, <3>1, <3>2, <3>3
  <2>4. history'[Len(history')].last
    <3>1. L + n \in 1..L + n /\ n \in 1..n
      BY <1>2, <1>5
    <3> QED
      BY <1>3, <1>5, <3>1
  <2> QED
    BY <1>5, <2>1, <2>2, <2>3, <2>4 DEF HistoryOrdered
<1>11. FeedStart'
  <2>1. subscribed > 0 => history'[subscribed].last
    BY <1>5, <1>8 DEF BookInv, FeedStart
  <2> QED
    BY <1>2, <1>4, <1>5, <1>8, <2>1 DEF BookInv, FeedStart
<1>12. SnapshotTimed'
  <2>1. ASSUME snapshot.state \in {"answered", "closed", "cut"}, NEW i \in 1..L + n
        PROVE  IF i <= snapshot.position THEN history'[i].timestamp <= T ELSE history'[i].timestamp >= T
    <3>1. T \in 1..now
      BY <2>1 DEF BookInv, SnapshotTimed
    <3>2. CASE i \in 1..L
      BY <1>5, <2>1, <3>2 DEF BookInv, SnapshotTimed
    <3>3. CASE i - L \in 1..n /\ history'[i] = new[i - L]
      BY <1>3, <1>5, <1>8, <3>1, <3>3
    <3> QED
      BY <1>6, <3>2, <3>3
  <2> QED
    BY <1>2, <1>4, <1>5, <1>8, <2>1 DEF BookInv, SnapshotTimed, T
<1>13. NotFetched'
  BY <1>4 DEF BookInv, NotFetched
<1>14. Filling'
  <2> SUFFICES ASSUME pc = "snapshot" PROVE Filling'
    BY <1>4 DEF Filling
  <2>1. Filling
    BY DEF BookInv
  <2>2. /\ snapshot'.state = "answered" /\ ~ order_book_ready'
        /\ last_timestamp' \in {0, T'} /\ (last_timestamp' = 0 => amount' = Book!NoLevels)
    BY <1>4, <2>1 DEF Filling, T
  <2>3. \A i \in 1..Len(todo') :
          /\ todo'[i].timestamp = T'
          /\ todo'[i].amount = TruthAt(todo[i].type, todo[i].price, snapshot.position)'
    BY <1>4, <1>7, <1>8, <2>1 DEF Filling, T
  <2>4. \A s \in Side, q \in Price :
          \/ amount'[s][q] = TruthAt(s, q, snapshot.position)'
          \/ amount'[s][q] = 0 /\ \E i \in 1..Len(todo') : todo'[i].type = s /\ todo'[i].price = q
    BY <1>4, <1>7, <1>8, <2>1 DEF Filling
  <2> QED
    BY <2>2, <2>3, <2>4 DEF Filling
<1>15. Filled'
  <2>1. Book!NonEmpty' = Book!NonEmpty
    BY <1>4 DEF Book!NonEmpty, Book!Levels
  <2> QED
    BY <1>4, <1>7, <1>8, <2>1 DEF BookInv, Filled, T
<1>16. SharedSecond => SharedSecond'
  <2> SUFFICES ASSUME NEW i \in 1..L, history[i].last, i + 1 \in 1..L,
                      history[i].timestamp = history[i + 1].timestamp
      PROVE  SharedSecond'
    BY HistoryTyped DEF SharedSecond
  <2>1. history' \in Seq(Change) /\ DOMAIN history' = 1..L + n
    BY <1>3, <1>4, <1>5, ConcatProperties, LenProperties DEF Inv, Typed
  <2>2. i \in DOMAIN history' /\ i + 1 \in DOMAIN history'
    BY <1>2, <1>5, <2>1
  <2> QED
    BY <1>5, <2>2 DEF SharedSecond
<1>17. Joined'
  <2> SUFFICES ASSUME order_book_ready PROVE Joined'
    BY <1>4 DEF Joined
  <2>1. Joined
    BY DEF BookInv
  <2>2. \A i \in snapshot.position + 1 .. subscribed : history'[i].timestamp = T
    <3>1. snapshot.position + 1 .. subscribed \subseteq 1..L
      BY <1>5, <1>8
    <3> QED
      BY <1>5, <2>1, <3>1 DEF Joined
  <2>3. ASSUME NEW i \in 1..L + n, i > applied, i > snapshot.position
        PROVE  history'[i].timestamp >= last_timestamp
    <3>1. CASE i \in 1..L
      BY <1>5, <2>1, <2>3, <3>1 DEF Joined
    <3>2. CASE i - L \in 1..n /\ history'[i] = new[i - L]
      BY <1>3, <3>2 DEF BookInv, BookTyped
    <3> QED
      BY <1>6, <3>1, <3>2
  <2> QED
    BY <1>4, <1>5, <1>16, <2>1, <2>2, <2>3 DEF Joined, T
<1>18. LevelsExplained'
  <2> SUFFICES ASSUME order_book_ready, NEW s \in Side, NEW q \in Price
      PROVE  Explained(s, q, amount[s][q], applied)'
    BY <1>4 DEF LevelsExplained
  <2>1. Explained(s, q, amount[s][q], applied)
    BY DEF BookInv, LevelsExplained
  <2>2. Latest(applied)' = Latest(applied) /\ T' = T
    BY <1>4 DEF Latest, T
  <2>3. /\ TruthAt(s, q, Latest(applied))' = TruthAt(s, q, Latest(applied))
        /\ Changes(s, q, Latest(applied))' = Changes(s, q, Latest(applied))
        /\ Changes(s, q, snapshot.position)' = Changes(s, q, snapshot.position)
    BY <1>4, <1>7, <1>8, <2>2
  <2>4. Changes(s, q, Latest(applied)) \subseteq 1..L /\ Changes(s, q, snapshot.position) \subseteq 1..L
    BY <1>5, <1>8 DEF Changes
  <2>5. TiedAt(s, q, Latest(applied)) => TiedAt(s, q, Latest(applied))'
    BY <1>4, <1>5, <2>2, <2>3, <2>4 DEF TiedAt
  <2>6. BehindAt(s, q, applied) => BehindAt(s, q, applied)'
    BY <1>4, <1>5, <1>16, <2>2, <2>3, <2>4 DEF BehindAt
  <2> QED
    BY <1>4, <1>16, <2>1, <2>2, <2>3, <2>5, <2>6 DEF Explained
<1>19. Rounds'
  BY <1>4 DEF BookInv, Rounds, Book!NonEmpty, Book!Levels
<1> QED
  BY <1>9, <1>10, <1>11, <1>12, <1>13, <1>14, <1>15, <1>17, <1>18, <1>19 DEF BookInv

(* Before the loop has accepted its book.                                  *)
LEMMA NotYetReady ==
  ASSUME ~ order_book_ready' PROVE Joined' /\ LevelsExplained'
BY DEF Joined, LevelsExplained

LEMMA SubscribeKeeps == ASSUME Inv, BookInv, Subscribe PROVE BookInv'
<1> USE DEF exchange_vars, feed_vars, client_vars, loop_vars, book_vars
<1>1. /\ feed = "connecting" /\ subscribed' = Len(history) /\ applied' = Len(history)
      /\ UNCHANGED <<now, history, snapshot, pc, queue, todo, order_book_ready,
                     amount, last_timestamp, crashed>>
  BY DEF Subscribe
<1>2. ~ order_book_ready /\ Len(history) \in Nat
  BY <1>1, HistoryTyped DEF BookInv, FeedStart
<1>3. BookTyped' /\ HistoryOrdered' /\ NotFetched'
  BY <1>1, <1>2 DEF BookInv, BookTyped, HistoryOrdered, NotFetched
<1>4. FeedStart'
  BY <1>1, <1>2 DEF BookInv, HistoryOrdered, FeedStart
<1>5. SnapshotTimed'
  BY <1>1 DEF BookInv, SnapshotTimed, T
<1>6. Filling'
  <2> SUFFICES ASSUME pc = "snapshot" PROVE Filling'
    BY <1>1 DEF Filling
  <2> QED
    BY <1>1, SameTruth DEF BookInv, Filling, T
<1>7. Filled'
  BY <1>1, SameTruth DEF BookInv, Filled, T, Book!NonEmpty, Book!Levels
<1>8. Rounds'
  BY <1>1, <1>2 DEF BookInv, Rounds, Book!Levels
<1> QED
  BY <1>1, <1>2, <1>3, <1>4, <1>5, <1>6, <1>7, <1>8, NotYetReady DEF BookInv

LEMMA AnswerKeeps == ASSUME Inv, BookInv, Answer PROVE BookInv'
<1> USE DEF exchange_vars, feed_vars, client_vars, loop_vars, book_vars
<1>1. /\ snapshot.state = "requested"
      /\ snapshot' = [state |-> "answered", position |-> Len(history), timestamp |-> now]
      /\ UNCHANGED <<now, history, feed, subscribed, pc, queue, todo, applied, order_book_ready,
                     amount, last_timestamp, crashed>>
  BY DEF Answer
<1>2. pc # "snapshot" /\ now \in Nat /\ Len(history) \in Nat
  BY <1>1, HistoryTyped DEF BookInv, Filling, Inv, Typed
<1>3. ~ order_book_ready /\ amount = Book!NoLevels /\ last_timestamp = 0
  BY <1>1, <1>2 DEF BookInv, NotFetched
<1>4. BookTyped' /\ HistoryOrdered' /\ FeedStart'
  BY <1>1, <1>2 DEF BookInv, BookTyped, HistoryOrdered, FeedStart
<1>5. SnapshotTimed'
  BY <1>1, <1>2 DEF BookInv, HistoryOrdered, SnapshotTimed, T
<1>6. NotFetched' /\ Filling' /\ Filled'
  BY <1>1, <1>2, <1>3 DEF NotFetched, Filling, Filled
<1>7. Rounds'
  BY <1>1, <1>3 DEF BookInv, Rounds
<1> QED
  BY <1>1, <1>3, <1>4, <1>5, <1>6, <1>7, NotYetReady DEF BookInv

LEMMA SnapshotBreaksKeeps == ASSUME Inv, BookInv, SnapshotBreaks PROVE BookInv'
<1> USE DEF exchange_vars, feed_vars, client_vars, loop_vars, book_vars
<1>1. /\ snapshot.state \in {"requested", "answered"} /\ pc # "snapshot"
      /\ snapshot' = [snapshot EXCEPT !.state = "broken"]
      /\ UNCHANGED <<now, history, feed, subscribed, pc, queue, todo, applied, order_book_ready,
                     amount, last_timestamp, crashed>>
  BY DEF SnapshotBreaks
<1>2. /\ snapshot'.state = "broken" /\ snapshot'.position = snapshot.position
      /\ snapshot' \in [state : {"none", "requested", "answered", "broken", "closed", "cut"},
                        position : Nat, timestamp : Nat]
  BY <1>1 DEF BookInv, BookTyped
<1>3. ~ order_book_ready /\ amount = Book!NoLevels /\ last_timestamp = 0
  BY <1>1 DEF BookInv, NotFetched
<1>4. BookTyped' /\ HistoryOrdered' /\ FeedStart'
  BY <1>1, <1>2 DEF BookInv, BookTyped, HistoryOrdered, FeedStart
<1>5. SnapshotTimed' /\ NotFetched' /\ Filling' /\ Filled'
  BY <1>1, <1>2, <1>3 DEF BookInv, SnapshotTimed, NotFetched, Filling, Filled
<1>6. Rounds'
  BY <1>1, <1>3 DEF BookInv, Rounds
<1> QED
  BY <1>1, <1>3, <1>4, <1>5, <1>6, NotYetReady DEF BookInv

(* The levels of one side of a book, each once and as it is in the book.   *)
LEMMA OrdersOfBook ==
  ASSUME NEW b \in [Side -> [Price -> Amount]], NEW s \in Side, NEW t \in Nat
  PROVE  /\ OrdersOf(b, s, t) \in Seq(SnapshotOrder)
         /\ \A i \in 1..Len(OrdersOf(b, s, t)) :
              \E q \in Price : /\ b[s][q] # 0
                               /\ OrdersOf(b, s, t)[i] =
                                    [type |-> s, timestamp |-> t, price |-> q, amount |-> b[s][q]]
         /\ \A q \in Price : b[s][q] # 0 =>
              \E i \in 1..Len(OrdersOf(b, s, t)) :
                OrdersOf(b, s, t)[i] = [type |-> s, timestamp |-> t, price |-> q, amount |-> b[s][q]]
<1> DEFINE Of(q) == [type |-> s, timestamp |-> t, price |-> q, amount |-> b[s][q]]
           Standing == {r \in Price : b[s][r] # 0}
           Orders == {Of(q) : q \in Standing}
           f == OrdersOf(b, s, t)
<1>1. IsFiniteSet(Orders)
  <2>1. IsFiniteSet(Standing)
    BY TobAssumption, FS_Subset
  <2>2. [q \in Standing |-> Of(q)] \in Surjection(Standing, Orders)
    BY DEF Surjection
  <2> HIDE DEF Orders, Standing
  <2> QED
    BY <2>1, <2>2, FS_Surjection
<1>2. Orders \subseteq SnapshotOrder
  BY DEF SnapshotOrder
<1> DEFINE n == Cardinality(Orders)
<1>3. n \in Nat /\ \E g \in [1..n -> Orders] : IsInjective(g)
  <2> HIDE DEF Orders
  <2>1. n \in Nat /\ ExistsBijection(1..n, Orders)
    BY <1>1, FS_CardinalityType
  <2>2. PICK g \in Bijection(1..n, Orders) : TRUE
    BY <2>1 DEF ExistsBijection
  <2>3. g \in [1..n -> Orders] /\ IsInjective(g)
    BY <2>2 DEF Bijection, Injection, IsInjective
  <2> QED
    BY <2>1, <2>3
<1>4. f = SetToSeq(Orders)
  BY DEF OrdersOf
<1> HIDE DEF f
<1>5. f \in [1..n -> Orders] /\ IsInjective(f)
  <2> HIDE DEF Orders
  <2> QED
    BY <1>3, <1>4 DEF SetToSeq
<1>6. f \in Seq(SnapshotOrder) /\ Len(f) = n
  <2> HIDE DEF Orders, n
  <2>1. f \in [1..n -> SnapshotOrder]
    BY <1>2, <1>5
  <2>2. f \in Seq(SnapshotOrder)
    BY <1>3, <2>1, SeqDef
  <2> QED
    BY <1>3, <2>1, <2>2
<1>7. f \in Surjection(1..n, Orders)
  <2>1. f \in Injection(1..n, Orders)
    BY <1>5 DEF Injection, IsInjective
  <2>2. Cardinality(1..n) = n /\ IsFiniteSet(1..n)
    BY <1>3, FS_Interval
  <2> HIDE DEF Orders
  <2> QED
    BY <1>1, <2>1, <2>2, FS_Injection
<1>8. \A o \in Orders : \E i \in 1..n : f[i] = o
  BY <1>7 DEF Surjection
<1>9. \A i \in 1..Len(f) : \E q \in Price : b[s][q] # 0 /\ f[i] = Of(q)
  <2>1. \A i \in 1..Len(f) : f[i] \in Orders
    <3> HIDE DEF Orders, n
    <3> QED
      BY <1>5, <1>6
  <2> HIDE DEF Of
  <2> QED
    BY <2>1
<1>10. \A q \in Price : b[s][q] # 0 => \E i \in 1..Len(f) : f[i] = Of(q)
  <2>1. \A q \in Price : b[s][q] # 0 => Of(q) \in Orders
    OBVIOUS
  <2> HIDE DEF Orders, n, Of
  <2> QED
    BY <1>6, <1>8, <2>1
<1> QED
  BY <1>6, <1>9, <1>10 DEF f

LEMMA TruthTyped ==
  ASSUME Inv, NEW s \in Side, NEW q \in Price, NEW p \in 0..Len(history)
  PROVE  TruthAt(s, q, p) \in Amount
<1>1. CASE Changes(s, q, p) = {}
  BY <1>1, TobAssumption DEF TruthAt, Side, Book!Side
<1>2. CASE Changes(s, q, p) # {}
  <2>1. Changes(s, q, p) \subseteq 1..p /\ p \in Nat
    BY HistoryTyped DEF Changes
  <2>2. Max(Changes(s, q, p)) \in 1..p
    BY <1>2, <2>1, LastPosition
  <2> QED
    BY <1>2, <2>2, HistoryTyped DEF TruthAt
<1> QED
  BY <1>1, <1>2

LEMMA ReadSnapshotKeeps == ASSUME Inv, BookInv, ReadSnapshot PROVE BookInv'
<1> USE DEF exchange_vars, feed_vars, client_vars, loop_vars, book_vars
<1>1. /\ pc = "events"
      /\ UNCHANGED <<now, history, feed, subscribed, snapshot, queue, applied, order_book_ready,
                     amount, last_timestamp, crashed>>
  BY DEF ReadSnapshot
<1>2. now \in now..MaxTime
  BY TobAssumption DEF BookInv, HistoryOrdered
<1>3. CASE UNCHANGED <<pc, todo>>
  <2>1. Rounds'
    BY <1>1, <1>3 DEF BookInv, Rounds, Book!Levels
  <2> QED
    BY <1>1, <1>2, <1>3, <2>1, FrameKeeps
<1>5. CASE /\ snapshot.state = "answered" /\ pc' = "snapshot"
           /\ todo' = OrdersOf(Truth(snapshot.position), "BUY", snapshot.timestamp)
                        \o OrdersOf(Truth(snapshot.position), "SELL", snapshot.timestamp)
  <2> DEFINE p == snapshot.position
             b == Truth(p)
             bids == OrdersOf(b, "BUY", T)
             asks == OrdersOf(b, "SELL", T)
  <2>1. ~ order_book_ready /\ amount = Book!NoLevels /\ last_timestamp = 0
    BY <1>1, <1>5 DEF BookInv, NotFetched
  <2>2. p \in 0..Len(history) /\ T \in Nat
    BY HistoryTyped DEF BookInv, BookTyped, SnapshotTimed, T
  <2>3. /\ b \in [Side -> [Price -> Amount]]
        /\ \A s \in Side, q \in Price : b[s][q] = TruthAt(s, q, p)
    BY <2>2, TruthTyped DEF Truth
  <2>4. "BUY" \in Side /\ "SELL" \in Side /\ \A s \in Side : s = "BUY" \/ s = "SELL"
    BY DEF Side, Book!Side
  <2> HIDE DEF b, p
  <2> DEFINE From(o) ==
        \E s \in Side, q \in Price :
          o = [type |-> s, timestamp |-> T, price |-> q, amount |-> b[s][q]]
  <2>5. /\ bids \in Seq(SnapshotOrder) /\ asks \in Seq(SnapshotOrder)
        /\ \A i \in 1..Len(bids) : From(bids[i])
        /\ \A i \in 1..Len(asks) : From(asks[i])
        /\ \A q \in Price : b["BUY"][q] # 0 =>
             \E i \in 1..Len(bids) : bids[i].type = "BUY" /\ bids[i].price = q
        /\ \A q \in Price : b["SELL"][q] # 0 =>
             \E i \in 1..Len(asks) : asks[i].type = "SELL" /\ asks[i].price = q
    <3>1. ASSUME NEW s \in Side
          PROVE  /\ OrdersOf(b, s, T) \in Seq(SnapshotOrder)
                 /\ \A i \in 1..Len(OrdersOf(b, s, T)) : From(OrdersOf(b, s, T)[i])
                 /\ \A q \in Price : b[s][q] # 0 =>
                      \E i \in 1..Len(OrdersOf(b, s, T)) :
                        OrdersOf(b, s, T)[i].type = s /\ OrdersOf(b, s, T)[i].price = q
      <4>1. /\ OrdersOf(b, s, T) \in Seq(SnapshotOrder)
            /\ \A i \in 1..Len(OrdersOf(b, s, T)) :
                 \E q \in Price : /\ b[s][q] # 0
                                  /\ OrdersOf(b, s, T)[i] =
                                       [type |-> s, timestamp |-> T, price |-> q, amount |-> b[s][q]]
            /\ \A q \in Price : b[s][q] # 0 =>
                 \E i \in 1..Len(OrdersOf(b, s, T)) :
                   OrdersOf(b, s, T)[i] = [type |-> s, timestamp |-> T, price |-> q, amount |-> b[s][q]]
        BY <2>2, <2>3, OrdersOfBook
      <4> DEFINE O == OrdersOf(b, s, T)
      <4> HIDE DEF O
      <4>2. \A i \in 1..Len(O) : From(O[i])
        BY <4>1 DEF O
      <4>3. ASSUME NEW q \in Price, b[s][q] # 0
            PROVE  \E i \in 1..Len(O) : O[i].type = s /\ O[i].price = q
        <5>1. PICK i \in 1..Len(O) :
                O[i] = [type |-> s, timestamp |-> T, price |-> q, amount |-> b[s][q]]
          BY <4>1, <4>3 DEF O
        <5>2. O[i].type = s /\ O[i].price = q
          BY <5>1
        <5> QED
          BY <5>2
      <4> QED
        BY <4>1, <4>2, <4>3 DEF O
    <3> HIDE DEF From
    <3> QED
      BY <2>4, <3>1
  <2>6. todo' = bids \o asks
    BY <1>5 DEF b, p, T
  <2> HIDE DEF bids, asks
  <2>7. /\ todo' \in Seq(SnapshotOrder) /\ Len(todo') = Len(bids) + Len(asks)
        /\ Len(bids) \in Nat /\ Len(asks) \in Nat
        /\ \A i \in 1..Len(bids) + Len(asks) :
             todo'[i] = IF i <= Len(bids) THEN bids[i] ELSE asks[i - Len(bids)]
    BY <2>5, <2>6, ConcatProperties, LenProperties
  <2>8. \A i \in 1..Len(todo') : From(todo'[i])
    <3> HIDE DEF From
    <3> TAKE i \in 1..Len(todo')
    <3>1. CASE i <= Len(bids)
      BY <2>5, <2>7, <3>1
    <3>2. CASE ~ (i <= Len(bids))
      <4>1. i - Len(bids) \in 1..Len(asks) /\ todo'[i] = asks[i - Len(bids)]
        BY <2>7, <3>2
      <4> QED
        BY <2>5, <4>1
    <3> QED
      BY <3>1, <3>2
  <2>9. \A i \in 1..Len(todo') :
          todo'[i].timestamp = T /\ todo'[i].amount = TruthAt(todo'[i].type, todo'[i].price, p)
    <3> TAKE i \in 1..Len(todo')
    <3>1. PICK s \in Side, q \in Price :
            todo'[i] = [type |-> s, timestamp |-> T, price |-> q, amount |-> b[s][q]]
      BY <2>8
    <3>2. /\ todo'[i].type = s /\ todo'[i].price = q
          /\ todo'[i].timestamp = T /\ todo'[i].amount = b[s][q]
      BY <3>1
    <3> QED
      BY <2>3, <3>2
  <2>10. ASSUME NEW s \in Side, NEW q \in Price, b[s][q] # 0
         PROVE  \E i \in 1..Len(todo') : todo'[i].type = s /\ todo'[i].price = q
    <3>1. CASE s = "BUY"
      <4>1. PICK i \in 1..Len(bids) : bids[i].type = "BUY" /\ bids[i].price = q
        BY <2>5, <2>10, <3>1
      <4>2. i \in 1..Len(todo') /\ todo'[i] = bids[i]
        BY <2>7
      <4> QED
        BY <3>1, <4>1, <4>2
    <3>2. CASE s = "SELL"
      <4>1. PICK i \in 1..Len(asks) : asks[i].type = "SELL" /\ asks[i].price = q
        BY <2>5, <2>10, <3>2
      <4>2. Len(bids) + i \in 1..Len(todo') /\ todo'[Len(bids) + i] = asks[i]
        BY <2>7
      <4> QED
        BY <3>2, <4>1, <4>2
    <3> QED
      BY <2>4, <3>1, <3>2
  <2>11. Filling'
    <3>1. /\ snapshot'.state = "answered" /\ ~ order_book_ready' /\ last_timestamp' = 0
          /\ amount' = Book!NoLevels /\ T' = T
      BY <1>1, <1>5, <2>1 DEF T
    <3>2. \A i \in 1..Len(todo') :
            /\ todo'[i].timestamp = T'
            /\ todo'[i].amount = TruthAt(todo[i].type, todo[i].price, snapshot.position)'
      BY <1>1, <2>9, <3>1, SameTruth DEF p
    <3>3. ASSUME NEW s \in Side, NEW q \in Price
          PROVE  \/ amount'[s][q] = TruthAt(s, q, snapshot.position)'
                 \/ amount'[s][q] = 0 /\ \E i \in 1..Len(todo') : todo'[i].type = s /\ todo'[i].price = q
      <4>1. amount'[s][q] = 0
        BY <3>1 DEF Book!NoLevels, Side
      <4>2. TruthAt(s, q, snapshot.position)' = b[s][q]
        BY <1>1, <2>3, SameTruth DEF p
      <4> QED
        BY <2>10, <4>1, <4>2
    <3>4. (last_timestamp' = 0 => amount' = Book!NoLevels) /\ last_timestamp' \in {0, T'}
      BY <3>1
    <3> QED
      BY <3>1, <3>2, <3>3, <3>4 DEF Filling
  <2>12. BookTyped' /\ HistoryOrdered' /\ FeedStart'
    BY <1>1, <2>7 DEF BookInv, BookTyped, HistoryOrdered, FeedStart
  <2>13. SnapshotTimed' /\ NotFetched' /\ Filled' /\ Rounds'
    BY <1>1, <1>5, <2>1 DEF BookInv, SnapshotTimed, NotFetched, Filled, Rounds, T
  <2> QED
    BY <1>1, <2>1, <2>11, <2>12, <2>13, NotYetReady DEF BookInv
<1> QED
  BY <1>3, <1>5 DEF ReadSnapshot

LEMMA AddSnapshotKeeps == ASSUME Inv, BookInv, AddSnapshot PROVE BookInv'
<1> USE DEF exchange_vars, feed_vars, client_vars, loop_vars, book_vars
<1>1. /\ pc = "snapshot"
      /\ UNCHANGED <<now, history, feed, subscribed, queue, applied, order_book_ready>>
  BY DEF AddSnapshot
<1>2. /\ snapshot.state = "answered" /\ ~ order_book_ready /\ last_timestamp \in {0, T}
      /\ last_timestamp = 0 => amount = Book!NoLevels
      /\ todo \in Seq(SnapshotOrder)
      /\ \A i \in 1..Len(todo) :
           /\ todo[i].timestamp = T
           /\ todo[i].amount = TruthAt(todo[i].type, todo[i].price, snapshot.position)
      /\ \A s \in Side, q \in Price :
           \/ amount[s][q] = TruthAt(s, q, snapshot.position)
           \/ amount[s][q] = 0 /\ \E i \in 1..Len(todo) : todo[i].type = s /\ todo[i].price = q
  BY <1>1 DEF BookInv, BookTyped, Filling
<1>3. /\ T \in 1..now /\ now \in Nat /\ snapshot.position <= Len(history)
      /\ \A i \in 1..Len(history) :
           IF i <= snapshot.position THEN history[i].timestamp <= T ELSE history[i].timestamp >= T
  BY <1>2 DEF BookInv, SnapshotTimed, Inv, Typed
<1>4. ~ crashed
  BY <1>2 DEF BookInv, Rounds
<1>5. HistoryOrdered' /\ FeedStart'
  BY <1>1 DEF BookInv, HistoryOrdered, FeedStart
<1>6. ASSUME todo # << >>, Book!Add(Head(todo)), todo' = Tail(todo), UNCHANGED <<pc, snapshot>>
      PROVE  BookInv'
  <2> DEFINE o == Head(todo)
  <2>1. /\ o = todo[1] /\ 1 \in 1..Len(todo) /\ Len(todo) \in Nat /\ o \in SnapshotOrder
        /\ todo' \in Seq(SnapshotOrder) /\ Len(todo') = Len(todo) - 1
        /\ \A i \in 1..Len(todo') : todo'[i] = todo[i + 1]
    BY <1>2, <1>6, EmptySeq, HeadTailProperties, LenProperties
  <2>2. /\ o.type \in Side /\ o.price \in Price /\ o.amount \in Amount /\ o.timestamp = T
        /\ o.amount = TruthAt(o.type, o.price, snapshot.position)
    BY <1>2, <2>1 DEF SnapshotOrder
  <2> HIDE DEF o
  <2>3. /\ amount' = [amount EXCEPT ![o.type][o.price] = o.amount]
        /\ last_timestamp' = T /\ crashed' = crashed
    BY <1>2, <1>3, <1>6, <2>2 DEF Book!Add, Book!Take, Book!Ignore, o
  <2>4. /\ amount' \in [Side -> [Price -> Amount]]
        /\ \A s \in Side, q \in Price :
             amount'[s][q] = IF s = o.type /\ q = o.price THEN o.amount ELSE amount[s][q]
    BY <2>2, <2>3 DEF BookInv, BookTyped
  <2>5. BookTyped'
    BY <1>1, <1>3, <1>6, <2>1, <2>3, <2>4 DEF BookInv, BookTyped
  <2>6. \A i \in 1..Len(todo') : i + 1 \in 1..Len(todo) /\ todo'[i] = todo[i + 1]
    BY <2>1
  <2>7. T' = T /\ last_timestamp' # 0
    BY <1>3, <1>6, <2>3 DEF T
  <2>8. \A i \in 1..Len(todo') :
          /\ todo'[i].timestamp = T
          /\ todo'[i].amount = TruthAt(todo'[i].type, todo'[i].price, snapshot.position)
    BY <1>2, <2>6
  <2>9. ASSUME NEW s \in Side, NEW q \in Price
        PROVE  \/ amount'[s][q] = TruthAt(s, q, snapshot.position)
               \/ amount'[s][q] = 0 /\ \E i \in 1..Len(todo') : todo'[i].type = s /\ todo'[i].price = q
    <3>1. CASE s = o.type /\ q = o.price
      BY <2>2, <2>4, <3>1
    <3>2. ASSUME ~ (s = o.type /\ q = o.price), amount[s][q] = 0,
                 NEW i \in 1..Len(todo), todo[i].type = s, todo[i].price = q
          PROVE  \E j \in 1..Len(todo') : todo'[j].type = s /\ todo'[j].price = q
      <4>1. i # 1
        BY <2>1, <3>2
      <4>2. i - 1 \in 1..Len(todo') /\ (i - 1) + 1 = i
        BY <2>1, <4>1
      <4>3. todo'[i - 1] = todo[i]
        BY <2>6, <4>2
      <4> QED
        BY <3>2, <4>2, <4>3
    <3> QED
      BY <1>2, <2>4, <3>1, <3>2
  <2>10. Filling'
    <3>1. \A i \in 1..Len(todo') :
            /\ todo'[i].timestamp = T'
            /\ todo'[i].amount = TruthAt(todo[i].type, todo[i].price, snapshot.position)'
      BY <1>1, <1>6, <2>7, <2>8, SameTruth
    <3>2. \A s \in Side, q \in Price :
            \/ amount'[s][q] = TruthAt(s, q, snapshot.position)'
            \/ amount'[s][q] = 0 /\ \E i \in 1..Len(todo') : todo'[i].type = s /\ todo'[i].price = q
      BY <1>1, <1>6, <2>9, SameTruth
    <3> QED
      BY <1>1, <1>2, <1>6, <2>3, <2>7, <3>1, <3>2 DEF Filling
  <2>11. SnapshotTimed' /\ NotFetched' /\ Filled' /\ Rounds'
    BY <1>1, <1>2, <1>3, <1>4, <1>6, <2>3, <2>7 DEF SnapshotTimed, NotFetched, Filled, Rounds, T
  <2> QED
    BY <1>1, <1>2, <1>5, <2>5, <2>10, <2>11, NotYetReady DEF BookInv
<1>7. ASSUME NEW st \in {"closed", "cut"}, snapshot' = [snapshot EXCEPT !.state = st],
             pc' = "events", UNCHANGED <<amount, last_timestamp, crashed>>, st = "closed" => todo = << >>
      PROVE  BookInv'
  <2>1. /\ snapshot'.state = st /\ snapshot'.position = snapshot.position /\ T' = T
        /\ snapshot' \in [state : {"none", "requested", "answered", "broken", "closed", "cut"},
                          position : Nat, timestamp : Nat]
    BY <1>7 DEF BookInv, BookTyped, T
  <2>2. BookTyped'
    BY <1>1, <1>7, <2>1 DEF BookInv, BookTyped
  <2>3. SnapshotTimed'
    BY <1>1, <1>3, <2>1 DEF SnapshotTimed
  <2>4. NotFetched' /\ Filling' /\ Rounds'
    BY <1>1, <1>2, <1>4, <1>7, <2>1 DEF NotFetched, Filling, Rounds
  <2>5. Book!NonEmpty' => last_timestamp' = T'
    <3>1. amount = Book!NoLevels => ~ Book!NonEmpty'
      BY <1>7 DEF Book!NoLevels, Book!NonEmpty, Book!Levels
    <3> QED
      BY <1>2, <1>7, <2>1, <3>1
  <2>6. ASSUME NEW s \in Side, NEW q \in Price
        PROVE  \/ amount'[s][q] = TruthAt(s, q, snapshot.position)'
               \/ snapshot'.state = "cut" /\ amount'[s][q] = 0
    <3>1. st = "closed" => ~ \E i \in 1..Len(todo) : todo[i].type = s /\ todo[i].price = q
      BY <1>7, EmptySeq
    <3>2. TruthAt(s, q, snapshot.position)' = TruthAt(s, q, snapshot.position)
      BY <1>1, <2>1, SameTruth
    <3> QED
      BY <1>2, <1>7, <2>1, <3>1, <3>2
  <2>7. Filled'
    BY <2>5, <2>6 DEF Filled
  <2> QED
    BY <1>1, <1>2, <1>5, <2>2, <2>3, <2>4, <2>7, NotYetReady DEF BookInv
<1> QED
  BY <1>6, <1>7 DEF AddSnapshot

LEMMA CheckEmptyKeeps == ASSUME Inv, BookInv, CheckEmpty PROVE BookInv'
<1> USE DEF exchange_vars, feed_vars, client_vars, loop_vars, book_vars
<1>1. /\ pc = "check" /\ pc' = "poll" /\ ~ Book!NonEmpty
      /\ UNCHANGED <<now, history, feed, subscribed, queue, applied, todo, order_book_ready,
                     amount, last_timestamp, crashed>>
  BY DEF CheckEmpty
<1>2. Rounds'
  BY <1>1 DEF BookInv, Rounds, Book!NonEmpty, Book!Levels
<1>3. CASE snapshot' = snapshot
  <2>1. now \in now..MaxTime
    BY TobAssumption DEF BookInv, HistoryOrdered
  <2> QED
    BY <1>1, <1>2, <1>3, <2>1, FrameKeeps
<1>4. CASE snapshot.state = "none" /\ snapshot' = Request
  <2>1. ~ order_book_ready /\ amount = Book!NoLevels /\ last_timestamp = 0
    BY <1>1, <1>4 DEF BookInv, NotFetched
  <2>2. BookTyped' /\ HistoryOrdered' /\ FeedStart'
    BY <1>1, <1>4 DEF BookInv, BookTyped, HistoryOrdered, FeedStart, Request
  <2>3. SnapshotTimed' /\ NotFetched' /\ Filling' /\ Filled'
    BY <1>1, <1>4, <2>1, HistoryTyped DEF SnapshotTimed, NotFetched, Filling, Filled, Request
  <2> QED
    BY <1>1, <1>2, <2>1, <2>2, <2>3, NotYetReady DEF BookInv
<1> QED
  BY <1>3, <1>4 DEF CheckEmpty

LEMMA RejectKeeps == ASSUME Inv, BookInv, Reject PROVE BookInv'
<1> USE DEF exchange_vars, feed_vars, client_vars, loop_vars, book_vars
<1>1. /\ pc = "check" /\ pc' = "poll" /\ ~ order_book_ready /\ snapshot' = NoSocket
      /\ amount' = Book!NoLevels /\ last_timestamp' = 0 /\ crashed' = crashed /\ ~ crashed
      /\ UNCHANGED <<now, history, feed, subscribed, queue, applied, todo, order_book_ready>>
  BY DEF Reject, Book!Clear
<1>2. snapshot' = [state |-> "none", position |-> 0, timestamp |-> 0]
  BY <1>1 DEF NoSocket, Request
<1>3. BookTyped'
  <2>1. amount' \in [Side -> [Price -> Amount]]
    BY <1>1, TobAssumption DEF Book!NoLevels, Side, Book!Side
  <2> QED
    BY <1>1, <1>2, <2>1 DEF BookInv, BookTyped, Inv, Typed
<1>4. HistoryOrdered' /\ FeedStart'
  BY <1>1 DEF BookInv, HistoryOrdered, FeedStart
<1>5. SnapshotTimed' /\ NotFetched' /\ Filling' /\ Filled' /\ Rounds'
  BY <1>1, <1>2, HistoryTyped DEF SnapshotTimed, NotFetched, Filling, Filled, Rounds, Book!NoLevels
<1> QED
  BY <1>1, <1>3, <1>4, <1>5, NotYetReady DEF BookInv

(* The snapshot is not older than the first order of the queue: whatever   *)
(* the feed lacks is of the very second of the snapshot.                   *)
LEMMA AcceptKeeps == ASSUME Inv, BookInv, Accept PROVE BookInv'
<1> USE DEF exchange_vars, feed_vars, client_vars, loop_vars, book_vars
<1>1. /\ pc = "check" /\ pc' = "drain" /\ Book!NonEmpty /\ order_book_ready'
      /\ order_book_ready \/ ~ SnapshotIsOld
      /\ UNCHANGED <<now, history, feed, subscribed, snapshot, queue, applied, todo,
                     amount, last_timestamp, crashed>>
  BY DEF Accept
<1>2. Rounds'
  BY <1>1 DEF BookInv, Rounds, Book!Levels
<1>3. CASE order_book_ready
  <2>1. now \in now..MaxTime
    BY TobAssumption DEF BookInv, HistoryOrdered
  <2>2. order_book_ready' = order_book_ready
    BY <1>1, <1>3 DEF Accept, BookInv, BookTyped
  <2> QED
    BY <1>1, <1>2, <1>3, <2>1, <2>2, FrameKeeps
<1>4. CASE ~ order_book_ready
  <2> DEFINE P == snapshot.position
             S == subscribed
  <2>1. snapshot.state \in {"closed", "cut"}
    <3>1. amount # Book!NoLevels
      BY <1>1 DEF Book!NonEmpty, Book!Levels, Book!NoLevels
    <3> QED
      BY <1>1, <3>1 DEF BookInv, BookTyped, NotFetched
  <2>2. /\ last_timestamp = T
        /\ \A s \in Side, q \in Price :
             \/ amount[s][q] = TruthAt(s, q, P)
             \/ snapshot.state = "cut" /\ amount[s][q] = 0
    BY <1>1, <1>4, <2>1 DEF BookInv, Filled
  <2>3. /\ T \in Nat /\ T <= now /\ now \in Nat /\ now <= MaxTime /\ P \in Nat /\ P <= Len(history)
        /\ \A i \in 1..Len(history) :
             IF i <= P THEN history[i].timestamp <= T ELSE history[i].timestamp >= T
    BY <2>1, TobAssumption DEF BookInv, HistoryOrdered, SnapshotTimed, Inv, Typed, BookTyped
  <2>4. /\ S \in Nat /\ applied = S /\ S <= Len(history) /\ (S > 0 => history[S].last)
    BY <1>4 DEF BookInv, BookTyped, FeedStart
  <2> HIDE DEF P, S
  <2>5. queue # << >> /\ Head(queue).timestamp <= T
    <3>1. ~ (last_timestamp < FirstTimestamp)
      BY <1>1, <1>4 DEF SnapshotIsOld
    <3>2. MaxTime \in Nat
      BY TobAssumption
    <3>3. queue # << >>
      BY <2>2, <2>3, <3>1, <3>2 DEF FirstTimestamp
    <3>4. Head(queue).timestamp \in Nat
      <4>1. queue \in Seq(Change)
        BY DEF Inv, Typed
      <4>2. Head(queue) \in Change
        BY <3>3, <4>1, HeadTailProperties
      <4> QED
        BY <4>2 DEF Change
    <3> QED
      BY <2>2, <2>3, <3>1, <3>3, <3>4 DEF FirstTimestamp
  <2>6. S + 1 \in 1..Len(history) /\ history[S + 1].timestamp <= T
    <3>1. queue \in Seq(Change) /\ Len(queue) \in Nat /\ Len(queue) # 0
      BY <2>5, EmptySeq, LenProperties DEF Inv, Typed
    <3>2. Head(queue) = queue[1] /\ queue[1] = history[applied + 1]
      BY <2>5, <3>1 DEF Inv, QueueFollows
    <3>3. applied + 1 <= Len(history)
      BY <3>1, HistoryTyped DEF Inv, Typed, QueueFollows
    <3> QED
      BY <2>4, <2>5, <3>2, <3>3
  <2>7. \A i \in P + 1 .. S + 1 : history[i].timestamp = T
    <3> TAKE i \in P + 1 .. S + 1
    <3>1. i \in 1..Len(history) /\ i <= S + 1 /\ ~ (i <= P)
      BY <2>3, <2>4, <2>6
    <3>2. history[i].timestamp >= T /\ history[i].timestamp <= history[S + 1].timestamp
      BY <2>3, <2>6, <3>1 DEF BookInv, HistoryOrdered
    <3>3. history[i].timestamp \in Nat /\ history[S + 1].timestamp \in Nat
      BY <2>6, <3>1, HistoryTyped
    <3> QED
      BY <2>3, <2>6, <3>2, <3>3
  <2>8. P < S => SharedSecond
    <3> SUFFICES ASSUME P < S PROVE SharedSecond
      OBVIOUS
    <3>1. S \in P + 1 .. S + 1 /\ S + 1 \in P + 1 .. S + 1 /\ S \in 1..Len(history) /\ S > 0
      BY <2>3, <2>4
    <3>2. history[S].timestamp = history[S + 1].timestamp
      BY <2>7, <3>1
    <3> QED
      BY <2>4, <2>6, <3>1, <3>2, HistoryTyped DEF SharedSecond
  <2>9. Joined'
    <3>1. \A i \in P + 1 .. S : history[i].timestamp = T
      BY <2>3, <2>4, <2>7
    <3>2. \A i \in 1..Len(history) : i > P => history[i].timestamp >= T
      BY <2>3
    <3> QED
      BY <1>1, <2>2, <2>3, <2>8, <3>1, <3>2 DEF Joined, T, SharedSecond, P, S
  <2>10. ASSUME NEW s \in Side, NEW q \in Price
         PROVE  Explained(s, q, amount[s][q], S)
    <3>1. \/ amount[s][q] = TruthAt(s, q, P)
          \/ snapshot.state = "cut" /\ amount[s][q] = 0
      BY <2>2
    <3>2. CASE S <= P
      <4>1. Latest(S) = P
        BY <2>3, <2>4, <3>2 DEF Latest, P
      <4>2. Changes(s, q, P) \subseteq 1..P
        BY DEF Changes
      <4> QED
        BY <3>1, <4>1, <4>2 DEF Explained, P
    <3>3. CASE ~ (S <= P)
      <4>1. Latest(S) = S /\ P < S
        BY <2>3, <2>4, <3>3 DEF Latest, P
      <4>2. CASE \A i \in Changes(s, q, S) : i <= P
        <5>1. Changes(s, q, S) = Changes(s, q, P) /\ TruthAt(s, q, S) = TruthAt(s, q, P)
          BY <2>3, <2>4, <4>1, <4>2, NoChangeBetween
        <5>2. Changes(s, q, P) \subseteq 1..P
          BY DEF Changes
        <5> QED
          BY <3>1, <4>1, <5>1, <5>2 DEF Explained, P
      <4>3. ASSUME NEW i \in Changes(s, q, S), ~ (i <= P)
            PROVE  TiedAt(s, q, S)
        <5>1. Changes(s, q, S) \subseteq 1..S /\ Changes(s, q, S) # {}
          BY DEF Changes
        <5> DEFINE m == Max(Changes(s, q, S))
        <5>2. m \in Changes(s, q, S) /\ \A j \in Changes(s, q, S) : j <= m
          BY <2>4, <5>1, LastPosition
        <5> HIDE DEF m
        <5>3. m \in 1..S /\ i \in 1..S /\ i <= m
          BY <5>1, <5>2
        <5>4. m > P /\ m <= S /\ m \in P + 1 .. S + 1
          BY <2>3, <2>4, <4>3, <5>3
        <5>5. history[m].timestamp = T
          BY <2>7, <5>4
        <5> QED
          BY <5>2, <5>4, <5>5 DEF TiedAt, P, S
      <4> QED
        BY <2>8, <4>1, <4>2, <4>3 DEF Explained
    <3> QED
      BY <3>2, <3>3
  <2>11. LevelsExplained'
    <3> SUFFICES ASSUME NEW s \in Side, NEW q \in Price
        PROVE  Explained(s, q, amount[s][q], applied)'
      BY DEF LevelsExplained
    <3>1. Explained(s, q, amount[s][q], applied)
      BY <2>4, <2>10
    <3> QED
      BY <1>1, <3>1, SameTruth DEF Explained, Latest, TiedAt, BehindAt, T, SharedSecond
  <2>12. BookTyped' /\ HistoryOrdered'
    <3>1. order_book_ready' \in BOOLEAN
      BY DEF Accept
    <3> QED
      BY <1>1, <3>1 DEF BookInv, BookTyped, HistoryOrdered
  <2>13. FeedStart'
    BY <1>1, <1>4, <2>5 DEF BookInv, FeedStart, Inv, NothingBeforeFeed
  <2>14. SnapshotTimed' /\ NotFetched' /\ Filling' /\ Filled'
    BY <1>1, <2>1 DEF BookInv, SnapshotTimed, NotFetched, Filling, Filled, T
  <2> QED
    BY <1>2, <2>9, <2>11, <2>12, <2>13, <2>14 DEF BookInv
<1> QED
  BY <1>3, <1>4

(* One order of the queue: older than the last one taken, and ignored, or  *)
(* the next change of the feed.                                            *)
LEMMA DrainKeeps == ASSUME Inv, BookInv, Drain PROVE BookInv'
<1> USE DEF exchange_vars, feed_vars, client_vars, loop_vars, book_vars
<1> DEFINE P == snapshot.position
           A == applied
           L == Len(history)
<1>1. /\ pc = "drain" /\ order_book_ready
      /\ UNCHANGED <<now, history, feed, subscribed, received, snapshot, todo, order_book_ready>>
  BY DEF Drain, BookInv, Rounds
<1>2. CASE queue = << >> /\ pc' = "print" /\ UNCHANGED <<queue, applied, book_vars>>
  <2>1. Rounds'
    BY <1>1, <1>2 DEF BookInv, Rounds, Book!Levels
  <2>2. now \in now..MaxTime
    BY TobAssumption DEF BookInv, HistoryOrdered
  <2> QED
    BY <1>1, <1>2, <2>1, <2>2, FrameKeeps
<1>3. ASSUME queue # << >>, Book!Add(Head(queue)), queue' = Tail(queue),
             applied' = applied + 1, pc' = pc
      PROVE  BookInv'
  <2> DEFINE o == history[A + 1]
  <2>1. /\ Head(queue) = o /\ A + 1 \in 1..L /\ A \in Nat /\ L \in Nat
        /\ o.type \in Side /\ o.price \in Price /\ o.amount \in Amount /\ o.timestamp \in Nat
    <3>1. queue \in Seq(Change) /\ Len(queue) \in Nat /\ Len(queue) # 0
      BY <1>3, EmptySeq, LenProperties DEF Inv, Typed
    <3>2. Head(queue) = queue[1] /\ queue[1] = history[A + 1]
      BY <1>3, <3>1 DEF Inv, QueueFollows
    <3>3. A + 1 \in 1..L /\ A \in Nat /\ L \in Nat
      BY <3>1, HistoryTyped DEF Inv, Typed, QueueFollows
    <3> QED
      BY <3>2, <3>3, HistoryTyped
  <2>2. snapshot.state \in {"closed", "cut"}
    BY <1>1 DEF BookInv, BookTyped, NotFetched
  <2>3. /\ P \in Nat /\ P <= L /\ T \in Nat /\ now \in Nat /\ subscribed \in Nat /\ subscribed <= A
        /\ last_timestamp \in Nat
        /\ \A i \in 1..L : IF i <= P THEN history[i].timestamp <= T ELSE history[i].timestamp >= T
        /\ \A i, j \in 1..L : i <= j => history[i].timestamp <= history[j].timestamp
        /\ \A i \in 1..L : history[i].timestamp \in 1..now
    BY <2>2 DEF BookInv, BookTyped, SnapshotTimed, HistoryOrdered, FeedStart, Inv, Typed
  <2>4. /\ \A i \in P + 1 .. subscribed : history[i].timestamp = T
        /\ P < subscribed => SharedSecond
        /\ last_timestamp >= T
        /\ A <= P => last_timestamp = T
        /\ \A i \in 1..L : i > A /\ i > P => history[i].timestamp >= last_timestamp
    BY <1>1 DEF BookInv, Joined
  <2>5. \A s \in Side, q \in Price : Explained(s, q, amount[s][q], A)
    BY <1>1 DEF BookInv, LevelsExplained
  <2>6. ~ crashed /\ crashed' = crashed
    BY <1>3 DEF Book!Add
  <2> DEFINE Taken == /\ amount' \in [Side -> [Price -> Amount]] /\ last_timestamp' = o.timestamp
                      /\ \A s \in Side, q \in Price :
                           amount'[s][q] = IF s = o.type /\ q = o.price THEN o.amount ELSE amount[s][q]
             Ignored == amount' = amount /\ last_timestamp' = last_timestamp
             InTime == /\ last_timestamp' >= T /\ (A + 1 <= P => last_timestamp' = T)
                       /\ \A i \in 1..L : i > A + 1 /\ i > P => history[i].timestamp >= last_timestamp'
             Right == \A s \in Side, q \in Price : Explained(s, q, amount'[s][q], A + 1)
  <2>7. amount \in [Side -> [Price -> Amount]]
    BY DEF BookInv, BookTyped
  <2>8. \/ o.timestamp >= last_timestamp /\ Taken
        \/ o.timestamp < last_timestamp /\ Ignored
    <3> HIDE DEF o
    <3>1. Book!Add(o)
      BY <1>3, <2>1
    <3>2. CASE o.timestamp < last_timestamp /\ UNCHANGED <<amount, last_timestamp>>
      BY <3>2
    <3>3. CASE /\ o.timestamp >= last_timestamp /\ last_timestamp' = o.timestamp
               /\ amount' = [amount EXCEPT ![o.type][o.price] = o.amount]
      <4>1. /\ amount' \in [Side -> [Price -> Amount]]
            /\ \A s \in Side, q \in Price :
                 amount'[s][q] = IF s = o.type /\ q = o.price THEN o.amount ELSE amount[s][q]
        BY <2>1, <2>7, <3>3
      <4> QED
        BY <3>3, <4>1
    <3> QED
      BY <3>1, <3>2, <3>3 DEF Book!Add, Book!Take, Book!Ignore
  <2>9. ASSUME NEW s \in Side, NEW q \in Price, ~ (s = o.type /\ q = o.price)
        PROVE  Changes(s, q, A + 1) = Changes(s, q, A) /\ TruthAt(s, q, A + 1) = TruthAt(s, q, A)
    BY <2>1, <2>9, NextChange
  <2> HIDE DEF o, P, L
  <2>10. ASSUME A < P PROVE InTime /\ Right
    <3>1. Latest(A) = P /\ Latest(A + 1) = P
      BY <2>1, <2>3, <2>10 DEF Latest, P
    <3>2. o.timestamp <= T /\ last_timestamp = T
      BY <2>1, <2>3, <2>4, <2>10 DEF o
    <3>3. ASSUME NEW s \in Side, NEW q \in Price, BehindAt(s, q, A),
                 ~ (s = o.type /\ q = o.price) \/ o.timestamp # T
          PROVE  BehindAt(s, q, A + 1)
      <4>1. PICK i \in Changes(s, q, P) : i > A /\ history[i].timestamp = T
        BY <3>3 DEF BehindAt, P
      <4>2. i \in 1..P /\ history[i].type = s /\ history[i].price = q
        BY DEF Changes
      <4>3. i # A + 1
        BY <3>3, <4>1, <4>2 DEF o
      <4>4. i > A + 1 /\ A + 1 < P
        BY <2>1, <2>3, <4>1, <4>2, <4>3
      <4> QED
        BY <3>3, <4>1, <4>4 DEF BehindAt, P
    <3>4. CASE o.timestamp < T
      <4>1. Ignored /\ o.timestamp # T
        BY <2>1, <2>3, <2>8, <3>2, <3>4
      <4>2. Right
        BY <2>5, <3>1, <3>3, <4>1 DEF Explained
      <4>3. InTime
        <5>1. \A i \in 1..L : i > A + 1 /\ i > P => history[i].timestamp >= last_timestamp'
          BY <2>3, <3>2, <4>1
        <5>2. last_timestamp' = T /\ last_timestamp' >= T
          BY <2>3, <3>2, <4>1
        <5> QED
          BY <5>1, <5>2
      <4> HIDE DEF InTime, Right
      <4> QED
        BY <4>2, <4>3
    <3>5. CASE o.timestamp = T
      <4>1. Taken
        <5>1. ~ (o.timestamp < last_timestamp)
          BY <2>3, <3>2, <3>5
        <5> HIDE DEF Taken
        <5> QED
          BY <2>8, <5>1
      <4>2. ASSUME NEW s \in Side, NEW q \in Price, ~ (s = o.type /\ q = o.price)
            PROVE  Explained(s, q, amount'[s][q], A + 1)
        BY <2>5, <3>1, <3>3, <4>1, <4>2 DEF Explained
      <4>3. Explained(o.type, o.price, amount'[o.type][o.price], A + 1)
        <5>1. amount'[o.type][o.price] = o.amount
          BY <2>1, <4>1
        <5>2. A + 1 \in Changes(o.type, o.price, P)
          BY <2>1, <2>3, <2>10 DEF Changes, o
        <5>3. CASE \A j \in Changes(o.type, o.price, P) : j <= A + 1
          <6>1. TruthAt(o.type, o.price, P) = history[A + 1].amount
            BY <2>3, <5>2, <5>3, LastChange
          <6> QED
            BY <3>1, <5>1, <6>1 DEF Explained, o
        <5>4. ASSUME NEW j \in Changes(o.type, o.price, P), ~ (j <= A + 1)
              PROVE  BehindAt(o.type, o.price, A + 1)
          <6>1. /\ j \in 1..P /\ j \in 1..L /\ A + 1 < j /\ A + 1 < P
                /\ history[j].type = o.type /\ history[j].price = o.price
            BY <2>1, <2>3, <5>4 DEF Changes
          <6>2. history[j].timestamp = T
            <7>1. history[j].timestamp <= T /\ o.timestamp <= history[j].timestamp
              BY <2>1, <2>3, <6>1 DEF o
            <7>2. history[j].timestamp \in Nat
              BY <2>3, <6>1
            <7> QED
              BY <2>3, <3>5, <7>1, <7>2
          <6>3. PICK k \in A + 1 .. j - 1 : history[k].last
            BY <2>1, <6>1 DEF BookInv, HistoryOrdered, L, o
          <6>4. k \in 1..L /\ k + 1 \in 1..L /\ A + 1 <= k /\ k <= j /\ k + 1 <= j /\ A + 1 <= k + 1
            BY <2>1, <2>3, <6>1
          <6>5. history[k].timestamp = T /\ history[k + 1].timestamp = T
            <7>1. ASSUME NEW x \in 1..L, A + 1 <= x, x <= j PROVE history[x].timestamp = T
              <8>1. o.timestamp <= history[x].timestamp /\ history[x].timestamp <= history[j].timestamp
                BY <2>1, <2>3, <6>1, <7>1 DEF o
              <8>2. history[x].timestamp \in Nat
                BY <2>3
              <8> QED
                BY <2>3, <3>5, <6>2, <8>1, <8>2
            <7> QED
              BY <6>4, <7>1
          <6>6. SharedSecond
            BY <6>3, <6>4, <6>5, HistoryTyped DEF SharedSecond, L
          <6> QED
            BY <5>4, <6>1, <6>2, <6>6 DEF BehindAt, P
        <5> QED
          BY <5>3, <5>4 DEF Explained
      <4>4. Right
        BY <4>2, <4>3
      <4>5. InTime
        <5>1. \A i \in 1..L : i > A + 1 /\ i > P => history[i].timestamp >= last_timestamp'
          BY <2>3, <3>5, <4>1
        <5>2. last_timestamp' = T /\ last_timestamp' >= T
          BY <2>3, <3>5, <4>1
        <5> QED
          BY <5>1, <5>2
      <4> HIDE DEF InTime, Right
      <4> QED
        BY <4>4, <4>5
    <3> HIDE DEF InTime, Right
    <3> QED
      BY <2>1, <2>3, <3>2, <3>4, <3>5
  <2>11. ASSUME ~ (A < P) PROVE InTime /\ Right
    <3>1. Latest(A) = A /\ Latest(A + 1) = A + 1 /\ ~ (A + 1 <= P)
      BY <2>1, <2>3, <2>11 DEF Latest, P
    <3>2. Taken /\ o.timestamp >= last_timestamp
      <4>1. o.timestamp >= last_timestamp
        BY <2>1, <2>3, <2>4, <2>11 DEF o
      <4> QED
        BY <2>1, <2>3, <2>8, <4>1
    <3>3. last_timestamp' >= T
      BY <2>1, <2>3, <2>4, <3>2
    <3>4. \A i \in 1..L : i > A + 1 /\ i > P => history[i].timestamp >= last_timestamp'
      BY <2>1, <2>3, <3>2 DEF o
    <3>5. InTime
      BY <3>1, <3>3, <3>4
    <3>6. ASSUME NEW s \in Side, NEW q \in Price
          PROVE  Explained(s, q, amount'[s][q], A + 1)
      <4>1. CASE s = o.type /\ q = o.price
        <5>1. TruthAt(s, q, A + 1) = o.amount
          BY <2>1, <4>1, NextChange DEF o
        <5> QED
          BY <3>1, <3>2, <4>1, <5>1 DEF Explained
      <4>2. CASE ~ (s = o.type /\ q = o.price)
        <5>1. amount'[s][q] = amount[s][q]
          BY <3>2, <4>2
        <5>2. Changes(s, q, A + 1) = Changes(s, q, A) /\ TruthAt(s, q, A + 1) = TruthAt(s, q, A)
          BY <2>9, <4>2
        <5>3. ~ BehindAt(s, q, A)
          BY <2>11 DEF BehindAt, P
        <5>4. TiedAt(s, q, A) => TiedAt(s, q, A + 1)
          BY <5>2 DEF TiedAt
        <5> QED
          BY <2>5, <3>1, <5>1, <5>2, <5>3, <5>4 DEF Explained
      <4> QED
        BY <4>1, <4>2
    <3>7. Right
      BY <3>6
    <3> HIDE DEF InTime, Right
    <3> QED
      BY <3>5, <3>7
  <2> HIDE DEF InTime, Right
  <2>12. InTime /\ Right
    BY <2>10, <2>11
  <2>13. amount' \in [Side -> [Price -> Amount]] /\ last_timestamp' \in Nat /\ last_timestamp' <= now
    BY <2>1, <2>3, <2>7, <2>8 DEF BookInv, BookTyped, o
  <2> HIDE DEF Taken, Ignored
  <2>14. BookTyped' /\ HistoryOrdered'
    BY <1>1, <1>3, <2>13 DEF BookInv, BookTyped, HistoryOrdered
  <2>15. FeedStart' /\ SnapshotTimed'
    BY <1>1, <1>3, <2>1, <2>3 DEF BookInv, FeedStart, SnapshotTimed, T
  <2>16. NotFetched' /\ Filling' /\ Filled'
    BY <1>1, <1>3, <2>2 DEF NotFetched, Filling, Filled
  <2>17. Joined'
    <3>1. SharedSecond' = SharedSecond /\ T' = T
      BY <1>1 DEF SharedSecond, T
    <3>2. /\ \A i \in snapshot'.position + 1 .. subscribed' : history'[i].timestamp = T
          /\ snapshot'.position < subscribed' => SharedSecond
      BY <1>1, <2>4 DEF P
    <3>3. /\ last_timestamp' >= T /\ (applied' <= snapshot'.position => last_timestamp' = T)
          /\ \A i \in 1..Len(history') :
               i > applied' /\ i > snapshot'.position => history'[i].timestamp >= last_timestamp'
      BY <1>1, <1>3, <2>12 DEF P, L, InTime
    <3> QED
      BY <3>1, <3>2, <3>3 DEF Joined
  <2>18. LevelsExplained'
    <3> SUFFICES ASSUME NEW s \in Side, NEW q \in Price
        PROVE  Explained(s, q, amount[s][q], applied)'
      BY DEF LevelsExplained
    <3>1. Explained(s, q, amount'[s][q], A + 1)
      BY <2>12 DEF Right
    <3> QED
      BY <1>1, <1>3, <3>1, SameTruth DEF Explained, Latest, TiedAt, BehindAt, T, SharedSecond
  <2>19. Rounds'
    BY <1>1, <1>3, <2>6 DEF Rounds
  <2> QED
    BY <2>14, <2>15, <2>16, <2>17, <2>18, <2>19 DEF BookInv
<1> QED
  BY <1>2, <1>3 DEF Drain

LEMMA BookNext == Inv /\ BookInv /\ [Next]_vars => BookInv'
<1> SUFFICES ASSUME Inv, BookInv, [Next]_vars PROVE BookInv'
  OBVIOUS
<1>1. ASSUME NEW m \in Messages, Publish(m) PROVE BookInv'
  BY <1>1, PublishKeeps
<1>2. CASE \/ Tick \/ FeedBreaks \/ TimerRuns \/ Poll \/ ReadDiff \/ QueueDiff \/ EndEvents
           \/ PrintBook \/ UNCHANGED vars
  BY <1>2, FrameSteps
<1>3. CASE Subscribe
  BY <1>3, SubscribeKeeps
<1>4. CASE Answer \/ SnapshotBreaks
  BY <1>4, AnswerKeeps, SnapshotBreaksKeeps
<1>5. CASE ReadSnapshot \/ AddSnapshot
  BY <1>5, ReadSnapshotKeeps, AddSnapshotKeeps
<1>6. CASE CheckEmpty \/ Reject
  BY <1>6, CheckEmptyKeeps, RejectKeeps
<1>7. CASE Accept \/ Drain
  BY <1>7, AcceptKeeps, DrainKeeps
<1> QED
  BY <1>1, <1>2, <1>3, <1>4, <1>5, <1>6, <1>7 DEF Next, Loop

LEMMA SpecKeepsBook == Spec => [](Inv /\ BookInv)
<1>1. Init => Inv /\ BookInv
  BY InitEstablishes, BookInit
<1>2. Inv /\ BookInv /\ [Next]_vars => (Inv /\ BookInv)'
  BY NextPreserves, BookNext
<1> QED
  BY <1>1, <1>2, PTL DEF Spec

-------------------------------------------------------------------------------
(* Theorems. *)

(* The book the loop trusts is the exchange's book at the latest position  *)
(* it has heard of, at every step of every drain, for every set of prices, *)
(* capacity of the queue, size of messages and length of the feed, and     *)
(* whichever connections break: it differs only in levels changed in a     *)
(* second that two messages share, or after a malformed snapshot.          *)
THEOREM BookIsAlwaysTruth == Spec => []BookIsTruth
BY SpecKeepsBook, BookInvImpliesBookIsTruth, PTL

(* With a book that has no reason to be wrong, orders stay in the queue    *)
(* between rounds only when the exchange's own book was empty.             *)
THEOREM StallsOnlyThen == Spec => []StallsOnlyOnEmptyMarket
BY SpecKeepsBook, BookInvImpliesStalls, PTL

(* With such a book, printing kills the process only when nothing is on    *)
(* sale at the exchange.                                                   *)
THEOREM DiesOnlyThen == Spec => []DiesOnlyWithoutAsks
BY SpecKeepsBook, BookInvImpliesDies, PTL

===============================================================================
