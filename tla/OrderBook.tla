------------------------------ MODULE OrderBook ------------------------------
(***************************************************************************)
(* OrderBook (order_book.hpp, order_book.cpp): the bids and the asks, each *)
(* in a LimitedMap, and the timestamp of the last order taken.  Every      *)
(* operation runs under m_lock, so each is one step.                       *)
(***************************************************************************)
EXTENDS Naturals, FiniteSets

CONSTANTS
  Price,      \* the prices of orders
  Amount,     \* the amounts of orders, zero among them
  Timestamp,  \* the timestamps of orders
  Depth,      \* m_depth
  End,        \* m_map.end() of a LimitedMap
  BidPrice,   \* the prices at which buy orders come in (bounds the model)
  AskPrice    \* the prices at which sell orders come in (bounds the model)

ASSUME OrderBookAssumption ==
  /\ Price \subseteq Nat /\ Amount \subseteq Nat /\ Timestamp \subseteq Nat
  /\ 0 \in Amount
  /\ Depth \in Nat \ {0}           \* main.cpp: OrderBook order_book(3)
  /\ End \notin Price
  /\ BidPrice \subseteq Price /\ AskPrice \subseteq Price

VARIABLES
  bid_map, bid_end,   \* m_bid, best (highest) price first
  ask_map, ask_end,   \* m_ask, best (lowest) price first
  m_last_timestamp,
  crashed             \* print() walked off an empty map and the process died

book == <<bid_map, bid_end, ask_map, ask_end>>
vars == <<book, m_last_timestamp, crashed>>

Greater(a, b) == a > b
Less(a, b) == a < b

(* No level of the book has amount zero. *)
Stored == Amount \ {0}

Bids == INSTANCE LimitedMap WITH Key <- Price, Value <- Stored, Comparator <- Greater,
                                 m_map <- bid_map, m_end <- bid_end
Asks == INSTANCE LimitedMap WITH Key <- Price, Value <- Stored, Comparator <- Less,
                                 m_map <- ask_map, m_end <- ask_end

Order == [type : {"BUY"},  timestamp : Timestamp, price : BidPrice, amount : Amount]
    \cup [type : {"SELL"}, timestamp : Timestamp, price : AskPrice, amount : Amount]

(* operator bool *)
NonEmpty == DOMAIN bid_map # {} \/ DOMAIN ask_map # {}

Init ==
  /\ Bids!Init
  /\ Asks!Init
  /\ m_last_timestamp = 0
  /\ crashed = FALSE

(* update() on m_bid and on m_ask: amount zero removes the level. *)
UpdateBids(o) ==
  \/ o.amount = 0 /\ Bids!Erase(o.price)
  \/ o.amount # 0 /\ Bids!Update(o.price, o.amount)

UpdateAsks(o) ==
  \/ o.amount = 0 /\ Asks!Erase(o.price)
  \/ o.amount # 0 /\ Asks!Update(o.price, o.amount)

(* Mutant: the timestamp comparison rejects orders of the same second. *)
RecentStrictly(o) == o.timestamp > m_last_timestamp

(* Mutant: an order is taken however old it is. *)
RecentAlways(o) == TRUE

Recent(o) == o.timestamp >= m_last_timestamp

Add(o) ==
  /\ ~ crashed
  /\ \/ /\ ~ Recent(o)
        /\ UNCHANGED <<book, m_last_timestamp>>
     \/ /\ Recent(o)
        /\ m_last_timestamp' = o.timestamp
        /\ \/ o.type = "BUY"  /\ UpdateBids(o) /\ UNCHANGED <<ask_map, ask_end>>
           \/ o.type = "SELL" /\ UpdateAsks(o) /\ UNCHANGED <<bid_map, bid_end>>
  /\ UNCHANGED crashed

(* print().  With no ask the loop decrements begin() of an empty std::map, *)
(* which dereferences a null parent pointer.                               *)
PrintBook ==
  /\ ~ crashed
  /\ \/ /\ Asks!Walk = {}
        /\ crashed' = TRUE
        /\ UNCHANGED book
     \/ /\ Asks!Walk # {}
        /\ Bids!MarkPrinted
        /\ Asks!MarkPrinted
        /\ UNCHANGED crashed
  /\ UNCHANGED m_last_timestamp

Clear ==
  /\ ~ crashed
  /\ Bids!Clear
  /\ Asks!Clear
  /\ m_last_timestamp' = 0
  /\ UNCHANGED crashed

Next ==
  \/ \E o \in Order : Add(o)
  \/ PrintBook
  \/ Clear

Spec == Init /\ [][Next]_vars

-------------------------------------------------------------------------------
(* Properties. *)

AmountAt(map) == [p \in Price |-> IF p \in DOMAIN map THEN map[p].value ELSE 0]

Plain == INSTANCE PriceBook WITH
  amount         <- [BUY |-> AmountAt(bid_map), SELL |-> AmountAt(ask_map)],
  last_timestamp <- m_last_timestamp

(* Two LimitedMaps and their iterators behave as one plain table of        *)
(* amounts, and print() dies exactly when that table has no ask.           *)
ImplementsPriceBook == Plain!Spec
===============================================================================
