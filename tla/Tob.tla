--------------------------------- MODULE Tob ---------------------------------
(***************************************************************************)
(* The main loop (main.cpp) between an exchange that publishes changes of  *)
(* its order book, the diff socket that queues them, the order book socket *)
(* that fetches a snapshot, and the order book the loop keeps.             *)
(*                                                                         *)
(* A change is one Order; a message of the exchange is one or more of them *)
(* with one timestamp.  A position is an index into the exchange's history *)
(* of changes: "at position p" is after the first p of them.               *)
(***************************************************************************)
EXTENDS Naturals, Sequences, FiniteSets, FiniteSetsExt, SequencesExt

CONSTANTS
  Price,        \* the prices of levels
  Amount,       \* the amounts of levels, zero among them
  N,            \* capacity of orders: Orders<1000>
  Opening,      \* the exchange's book at position 0
  MaxOrders,    \* how many changes the exchange publishes (bounds the model)
  MessageSize,  \* how many of them one message may carry (bounds the model)
  MaxTime,      \* where the exchange's clock stops (bounds the model)
  Faults        \* which connections may break ("feed", "snapshot"), and whether
                \* an answer or message may hold a level that is no number ("malformed")

VARIABLES
  (* The exchange. *)
  now,          \* its clock, in seconds
  history,      \* the changes it has published; last ends a message
  (* Its connections to the client. *)
  feed,         \* of diff_socket: "connecting", "open" or "closed"
  subscribed,   \* the position at which the feed starts
  received,     \* the position up to which on_read() has queued the feed
  snapshot,     \* of order_book_socket: its state and what was answered
  (* The client. *)
  pc,           \* where the main loop is
  pending,      \* the sockets poll() reported that are not handled yet
  todo,         \* the orders the callback or loop at hand still has to add
  queue,        \* orders
  order_book_ready,
  elapsed,      \* reconect_timer has run for longer than RECONECT_INTERVAL
  applied,      \* the position up to which the loop has taken the feed
  (* order_book, as module PriceBook describes it. *)
  amount, last_timestamp, crashed

ASSUME TobAssumption ==
  /\ Price \subseteq Nat /\ IsFiniteSet(Price) /\ Amount \subseteq Nat /\ 0 \in Amount
  /\ N \in Nat \ {0} /\ MaxOrders \in Nat /\ MessageSize \in Nat \ {0} /\ MaxTime \in Nat \ {0}
  /\ Faults \subseteq {"feed", "snapshot", "malformed"}
  /\ Opening \in [{"BUY", "SELL"} -> [Price -> Amount]]

exchange_vars == <<now, history>>
feed_vars == <<feed, subscribed, received>>
loop_vars == <<pending, todo, order_book_ready, elapsed>>
book_vars == <<amount, last_timestamp, crashed>>
client_vars == <<pc, queue, applied, loop_vars, book_vars>>
vars == <<exchange_vars, feed_vars, snapshot, client_vars>>

Book == INSTANCE PriceBook WITH Timestamp <- 0 .. MaxTime

Side == Book!Side

Level == [type : Side, price : Price, amount : Amount]

-------------------------------------------------------------------------------
(* The exchange's book at a position. *)

Changes(side, price, p) ==
  {i \in 1 .. p : history[i].type = side /\ history[i].price = price}

TruthAt(side, price, p) ==
  IF Changes(side, price, p) = {} THEN Opening[side][price]
  ELSE history[Max(Changes(side, price, p))].amount

Truth(p) == [s \in Side |-> [q \in Price |-> TruthAt(s, q, p)]]

(* The levels of book b on one side as orders of time t. *)
OrdersOf(b, side, t) ==
  SetToSeq({[type |-> side, timestamp |-> t, price |-> q, amount |-> b[side][q]] :
              q \in {r \in Price : b[side][r] # 0}})

-------------------------------------------------------------------------------
(* Initial state: main() has created both sockets. *)

Request == [state |-> "requested", position |-> 0, timestamp |-> 0]
NoSocket == [Request EXCEPT !.state = "none"]

Init ==
  /\ now = 1 /\ history = << >>
  /\ feed = "connecting" /\ subscribed = 0 /\ received = 0
  /\ snapshot = Request
  /\ pc = "poll" /\ pending = {} /\ todo = << >>
  /\ queue = << >> /\ applied = 0
  /\ order_book_ready = FALSE /\ elapsed = FALSE
  /\ Book!Init

-------------------------------------------------------------------------------
(* The exchange, the network and the timer, while the process lives. *)

Alive == ~ crashed

Tick ==
  /\ Alive /\ now < MaxTime
  /\ now' = now + 1
  /\ UNCHANGED <<history, feed_vars, snapshot, client_vars>>

(* m as changes at time t. *)
Stamped(m, t) ==
  [i \in 1 .. Len(m) |-> [type |-> m[i].type, timestamp |-> t, price |-> m[i].price,
                          amount |-> m[i].amount, last |-> i = Len(m)]]

Publish(m) ==
  /\ Alive /\ Len(history) + Len(m) <= MaxOrders
  /\ history' = history \o Stamped(m, now)
  /\ UNCHANGED <<now, feed_vars, snapshot, client_vars>>

(* The exchange has taken the subscription DiffLogic sent after the        *)
(* websocket handshake.                                                    *)
Subscribe ==
  /\ Alive /\ feed = "connecting"
  /\ feed' = "open"
  /\ subscribed' = Len(history) /\ received' = Len(history) /\ applied' = Len(history)
  /\ UNCHANGED <<exchange_vars, snapshot, pc, queue, loop_vars, book_vars>>

(* The exchange answers the request for its whole book. *)
Answer ==
  /\ Alive /\ snapshot.state = "requested"
  /\ snapshot' = [state |-> "answered", position |-> Len(history), timestamp |-> now]
  /\ UNCHANGED <<exchange_vars, feed_vars, client_vars>>

FeedBreaks ==
  /\ Alive /\ "feed" \in Faults /\ feed \in {"connecting", "open"}
  /\ feed' = "closed"
  /\ UNCHANGED <<exchange_vars, subscribed, received, snapshot, client_vars>>

SnapshotBreaks ==
  /\ Alive /\ "snapshot" \in Faults /\ snapshot.state \in {"requested", "answered"} /\ pc # "snapshot"
  /\ snapshot' = [snapshot EXCEPT !.state = "broken"]
  /\ UNCHANGED <<exchange_vars, feed_vars, client_vars>>

TimerRuns ==
  /\ Alive /\ ~ elapsed
  /\ elapsed' = TRUE
  /\ UNCHANGED <<exchange_vars, feed_vars, snapshot, pc, queue, applied, pending, todo,
                 order_book_ready, book_vars>>

-------------------------------------------------------------------------------
(* The events of one round. *)

Readable ==
  {e \in {"diff", "snapshot"} :
     \/ e = "diff" /\ feed = "open" /\ received < Len(history)
     \/ e = "snapshot" /\ snapshot.state = "answered"}

Poll ==
  /\ pc = "poll"
  /\ pc' = "events"
  /\ pending' = Readable
  /\ UNCHANGED <<exchange_vars, feed_vars, snapshot, queue, applied, todo,
                 order_book_ready, elapsed, book_vars>>

(* DiffLogic::on_read() starts on the next messages of the feed: as many   *)
(* as it finds in what it reads.                                           *)
ReadDiff ==
  /\ pc = "events" /\ "diff" \in pending
  /\ pending' = pending \ {"diff"}
  /\ \/ /\ feed = "open"
        /\ pc' = "diff"
        /\ \E j \in received + 1 .. Len(history) :
             history[j].last /\ todo' = SubSeq(history, received + 1, j)
     \/ feed # "open" /\ UNCHANGED <<pc, todo>>
  /\ UNCHANGED <<exchange_vars, feed_vars, snapshot, queue, applied,
                 order_book_ready, elapsed, book_vars>>

(* Mutant: with the pool empty the level is skipped and the message goes on. *)
QueueDiffSkipping ==
  /\ pc = "diff"
  /\ queue' = IF Len(queue) < N THEN Append(queue, Head(todo)) ELSE queue
  /\ received' = received + 1
  /\ todo' = Tail(todo)
  /\ pc' = IF todo' = << >> THEN "events" ELSE "diff"
  /\ UNCHANGED <<exchange_vars, feed, subscribed, snapshot, applied, pending,
                 order_book_ready, elapsed, book_vars>>

(* m_orders.add_order() of one level.  When the pool is empty it throws,   *)
(* as std::stod does of a level that is no number, and the loop closes the *)
(* socket; main() holds no order at this point, so the pool is empty when  *)
(* N orders are queued.                                                    *)
QueueDiff ==
  /\ pc = "diff"
  /\ \/ /\ Len(queue) < N
        /\ queue' = Append(queue, Head(todo))
        /\ received' = received + 1
        /\ todo' = Tail(todo)
        /\ pc' = IF todo' = << >> THEN "events" ELSE "diff"
        /\ UNCHANGED feed
     \/ /\ Len(queue) = N \/ "malformed" \in Faults
        /\ feed' = "closed"
        /\ todo' = << >>
        /\ pc' = "events"
        /\ UNCHANGED <<queue, received>>
  /\ UNCHANGED <<exchange_vars, subscribed, snapshot, applied, pending,
                 order_book_ready, elapsed, book_vars>>

(* ReceiveOrderBookLogic::on_read() has the whole body. *)
ReadSnapshot ==
  /\ pc = "events" /\ "snapshot" \in pending
  /\ pending' = pending \ {"snapshot"}
  /\ \/ /\ snapshot.state = "answered"
        /\ pc' = "snapshot"
        /\ LET b == Truth(snapshot.position)
           IN  todo' = OrdersOf(b, "BUY", snapshot.timestamp)
                         \o OrdersOf(b, "SELL", snapshot.timestamp)
     \/ snapshot.state # "answered" /\ UNCHANGED <<pc, todo>>
  /\ UNCHANGED <<exchange_vars, feed_vars, snapshot, queue, applied,
                 order_book_ready, elapsed, book_vars>>

(* process_json() adds the levels to the book, then the socket is closed   *)
(* (order_book_socket still points to it).  std::stod throws on a level    *)
(* that is no number; the levels before it stay in the book, and the       *)
(* socket is closed just the same ("cut" to tell the two apart).           *)
AddSnapshot ==
  /\ pc = "snapshot"
  /\ \/ /\ todo # << >>
        /\ Book!Add(Head(todo))
        /\ todo' = Tail(todo)
        /\ UNCHANGED <<pc, snapshot>>
     \/ /\ todo = << >>
        /\ snapshot' = [snapshot EXCEPT !.state = "closed"]
        /\ pc' = "events"
        /\ UNCHANGED <<todo, book_vars>>
     \/ /\ todo # << >> /\ "malformed" \in Faults
        /\ snapshot' = [snapshot EXCEPT !.state = "cut"]
        /\ todo' = << >>
        /\ pc' = "events"
        /\ UNCHANGED book_vars
  /\ UNCHANGED <<exchange_vars, feed_vars, queue, applied, pending,
                 order_book_ready, elapsed>>

EndEvents ==
  /\ pc = "events" /\ pending = {}
  /\ pc' = "check"
  /\ UNCHANGED <<exchange_vars, feed_vars, snapshot, queue, applied, loop_vars, book_vars>>

-------------------------------------------------------------------------------
(* The rest of the round. *)

(* get_first_timestamp(): 2^64 - 1, later than any other, when the queue   *)
(* is empty.                                                               *)
FirstTimestamp == IF queue = << >> THEN MaxTime + 1 ELSE Head(queue).timestamp

(* if (!order_book) *)
CheckEmpty ==
  /\ pc = "check" /\ ~ Book!NonEmpty
  /\ snapshot' = IF snapshot.state = "none" /\ elapsed THEN Request ELSE snapshot
  /\ pc' = "poll"
  /\ UNCHANGED <<exchange_vars, feed_vars, queue, applied, loop_vars, book_vars>>

(* Mutant: a snapshot older than the first queued order is good enough.    *)
SnapshotIsOldNever == FALSE

(* The feed may lack changes between the snapshot and its first order.     *)
SnapshotIsOld == last_timestamp < FirstTimestamp

(* Mutant: the socket of the rejected snapshot is kept. *)
RejectKeepingSocket ==
  /\ pc = "check" /\ Book!NonEmpty /\ ~ order_book_ready /\ SnapshotIsOld
  /\ Book!Clear
  /\ elapsed' = FALSE
  /\ pc' = "poll"
  /\ UNCHANGED <<exchange_vars, feed_vars, snapshot, queue, applied, pending, todo,
                 order_book_ready>>

(* if (!order_book_ready), and the snapshot has to be fetched again. *)
Reject ==
  /\ pc = "check" /\ Book!NonEmpty /\ ~ order_book_ready /\ SnapshotIsOld
  /\ Book!Clear
  /\ elapsed' = FALSE
  /\ snapshot' = NoSocket
  /\ pc' = "poll"
  /\ UNCHANGED <<exchange_vars, feed_vars, queue, applied, pending, todo, order_book_ready>>

Accept ==
  /\ pc = "check" /\ Book!NonEmpty
  /\ order_book_ready \/ ~ SnapshotIsOld
  /\ order_book_ready' = TRUE
  /\ pc' = "drain"
  /\ UNCHANGED <<exchange_vars, feed_vars, snapshot, queue, applied, pending, todo,
                 elapsed, book_vars>>

(* while (order = orders.get_order()) order_book.add( *order) *)
Drain ==
  /\ pc = "drain"
  /\ \/ /\ queue # << >>
        /\ Book!Add(Head(queue))
        /\ queue' = Tail(queue)
        /\ applied' = applied + 1
        /\ UNCHANGED pc
     \/ /\ queue = << >>
        /\ pc' = "print"
        /\ UNCHANGED <<queue, applied, book_vars>>
  /\ UNCHANGED <<exchange_vars, feed_vars, snapshot, loop_vars>>

(* The book is printed in the first round of every second. *)
PrintBook ==
  /\ pc = "print"
  /\ Book!PrintBook \/ UNCHANGED book_vars
  /\ pc' = IF crashed' THEN "dead" ELSE "poll"
  /\ UNCHANGED <<exchange_vars, feed_vars, snapshot, queue, applied, loop_vars>>

(* One or more levels, each once. *)
Messages ==
  {m \in UNION {[1 .. n -> Level] : n \in 1 .. MessageSize} :
     \A i, j \in DOMAIN m : i # j => m[i].type # m[j].type \/ m[i].price # m[j].price}

Loop ==
  \/ Poll
  \/ ReadDiff
  \/ QueueDiff
  \/ ReadSnapshot
  \/ AddSnapshot
  \/ EndEvents
  \/ CheckEmpty
  \/ Reject
  \/ Accept
  \/ Drain
  \/ PrintBook

Next ==
  \/ Tick
  \/ \E m \in Messages : Publish(m)
  \/ Subscribe
  \/ Answer
  \/ FeedBreaks
  \/ SnapshotBreaks
  \/ TimerRuns
  \/ Loop

Spec == Init /\ [][Next]_vars

(* poll() returns at the latest when its timeout is over, so the loop goes *)
(* round for ever; timers run, and the exchange answers requests.          *)
Fairness == WF_vars(Loop) /\ WF_vars(TimerRuns) /\ WF_vars(Answer)

LiveSpec == Spec /\ Fairness

-------------------------------------------------------------------------------
(* Properties. *)

(* What waits in the queue is the stretch of the feed between what the     *)
(* loop took and what on_read() handed over, without a gap and without a   *)
(* repetition, also when an exception cuts a message in its middle.        *)
QueueIsFeed == queue = SubSeq(history, applied + 1, received)

(* The latest position the book has heard of. *)
Position == Max({snapshot.position, applied})

(* Timestamps count seconds.  Two messages have the same one: *)
SharedSecond ==
  \E i \in DOMAIN history : history[i].last
    /\ i + 1 \in DOMAIN history /\ history[i].timestamp = history[i + 1].timestamp

(* The last change of a level was published after the snapshot, in its     *)
(* very second, and before the feed began.                                 *)
Tied(s, q) ==
  \E i \in Changes(s, q, Position) \cap (snapshot.position + 1 .. subscribed) :
    i = Max(Changes(s, q, Position)) /\ history[i].timestamp = snapshot.timestamp

(* A snapshot cut short by a malformed level lacks this one, and the feed  *)
(* has not changed it since.                                               *)
CutOff(s, q) ==
  /\ snapshot.state = "cut" /\ amount[s][q] = 0
  /\ Changes(s, q, Position) \subseteq 1 .. snapshot.position

(* Once the loop trusts its book, it is the exchange's book at the latest  *)
(* position it has heard of, at every step of a drain too: no change fell  *)
(* between the snapshot and the feed, none was taken twice or out of turn. *)
(* A level is wrong only when messages share a second (it is tied, or the  *)
(* feed is still behind the snapshot), or when a malformed snapshot passed *)
(* for a whole one.                                                        *)
BookIsTruth ==
  order_book_ready =>
    \A s \in Side, q \in Price :
      \/ amount[s][q] = TruthAt(s, q, Position)
      \/ SharedSecond /\ (Tied(s, q) \/ applied < snapshot.position)
      \/ CutOff(s, q)

(* The accepted book has no reason to be wrong. *)
Reliable == ~ SharedSecond /\ snapshot.state # "cut"

(* The loop leaves orders in the queue after the book was accepted only    *)
(* when the exchange's own book had no level left at that position.  (It   *)
(* then leaves them for good: with no level the loop waits for a snapshot  *)
(* it never requests.)                                                     *)
StallsOnlyOnEmptyMarket ==
  order_book_ready /\ Reliable /\ pc = "poll" /\ queue # << >> => Truth(Position) = Book!NoLevels

(* The process dies of printing only if the exchange had nothing on sale.  *)
DiesOnlyWithoutAsks ==
  crashed /\ Reliable => \A q \in Price : TruthAt("SELL", q, Position) = 0

(* The snapshot gave the loop nothing to start from, or the book it started *)
(* from has become empty: no other is requested, for order_book_socket is  *)
(* still set.                                                              *)
Stalled ==
  /\ pc = "poll" /\ ~ Book!NonEmpty
  /\ \/ snapshot.state \in {"broken", "cut"}
     \/ snapshot.state = "closed" /\ (order_book_ready \/ Truth(snapshot.position) = Book!NoLevels)

(* Every change that reaches the queue reaches the book, however often the *)
(* snapshot has to be fetched again, and also when the feed breaks or the  *)
(* queue runs over afterwards, unless the loop stalls or dies printing.    *)
EveryChangeApplied ==
  \A n \in 1 .. MaxOrders : received >= n ~> applied >= n \/ Stalled \/ crashed

===============================================================================
