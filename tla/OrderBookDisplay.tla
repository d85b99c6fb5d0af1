--------------------------- MODULE OrderBookDisplay ---------------------------
(***************************************************************************)
(* OrderBook together with the orders it was given and with what print()   *)
(* writes, to say that no order is lost, and what the reader of the screen *)
(* may conclude from the lines and from the highlighting of changes.       *)
(***************************************************************************)
EXTENDS OrderBook

VARIABLES
  ledger,  \* the orders given since the last clear(), booked one by one:
           \* an amount per side and price, and the latest time (history)
  screen,  \* the levels the last print() wrote, with their amounts
  echoed   \* the levels that were set to the amount they already had, and
           \* have not been printed since (history)

dvars == <<vars, ledger, screen, echoed>>

MapOf(side) == IF side = "BUY" THEN bid_map ELSE ask_map

(* Mutant: the loop over the asks stops before it has printed begin().     *)
PrintedAsksShort == {p \in Asks!Walk : \E q \in Asks!Walk : q < p}

(* The ask loop runs backwards from end() down to begin().                 *)
PrintedAsks == Asks!Walk

PrintedOf(side) == IF side = "BUY" THEN Bids!Walk ELSE PrintedAsks

(* The lines print() writes for one side, and which of them it highlights. *)
Lines(side) == [p \in PrintedOf(side) |-> MapOf(side)[p].value]

Highlighted(side) ==
  {p \in PrintedOf(side) : MapOf(side)[p].value # MapOf(side)[p].prev_value}

(* o sets a level to the amount it has. *)
Echoes(o) ==
  /\ Recent(o)
  /\ o.price \in DOMAIN MapOf(o.type)
  /\ MapOf(o.type)[o.price].value = o.amount

EmptyLedger == [amount |-> [s \in {"BUY", "SELL"} |-> [p \in Price |-> 0]], time |-> 0]

Booked(o) == [ledger EXCEPT !.amount[o.type][o.price] = o.amount, !.time = o.timestamp]

DInit ==
  /\ Init
  /\ ledger = EmptyLedger
  /\ screen = [BUY |-> << >>, SELL |-> << >>]
  /\ echoed = {}

DAdd(o) ==
  /\ Add(o)
  /\ ledger' = IF o.timestamp < ledger.time THEN ledger ELSE Booked(o)
  /\ echoed' = IF Echoes(o) THEN echoed \cup {<<o.type, o.price>>} ELSE echoed
  /\ UNCHANGED screen

DPrint ==
  /\ PrintBook
  /\ screen' = IF crashed' THEN screen
               ELSE [BUY |-> Lines("BUY"), SELL |-> Lines("SELL")]
  /\ echoed' = {e \in echoed : e[2] \notin PrintedOf(e[1])}
  /\ UNCHANGED ledger

DClear ==
  /\ Clear
  /\ ledger' = EmptyLedger
  /\ echoed' = {}
  /\ UNCHANGED screen

DNext == (\E o \in Order : DAdd(o)) \/ DPrint \/ DClear

DSpec == DInit /\ [][DNext]_dvars

-------------------------------------------------------------------------------
(* Properties. *)

(* The book is what its orders make it: none at least as recent as all     *)
(* before it passes unnoticed, one of the same second in particular, and   *)
(* an amount of zero leaves no level.                                      *)
BookFollowsOrders ==
  \A side \in {"BUY", "SELL"} : AmountAt(MapOf(side)) = ledger.amount[side]

(* The prices of P that fewer than Depth prices of P beat. *)
BestBids(P) == {p \in P : Cardinality({q \in P : q > p}) < Depth}
BestAsks(P) == {p \in P : Cardinality({q \in P : q < p}) < Depth}

Amounts(map, P) == [p \in P |-> map[p].value]

(* What print() writes is the best m_depth levels of either side, each     *)
(* with its amount in the book, however the book came about.               *)
ScreenShowsBest ==
  [][screen' # screen =>
       /\ screen'.BUY  = Amounts(bid_map, BestBids(DOMAIN bid_map))
       /\ screen'.SELL = Amounts(ask_map, BestAsks(DOMAIN ask_map))]_dvars

(* A line print() writes without highlight shows the amount that was on    *)
(* the screen already.  The one exception the code leaves is a level set   *)
(* again to the amount it has: update() then overwrites prev_value with    *)
(* it, and a change the reader has not seen yet goes unmarked.             *)
NoSilentChange ==
  [][DPrint /\ ~ crashed' =>
       \A side \in {"BUY", "SELL"} :
         \A p \in PrintedOf(side) \ Highlighted(side) :
           \/ <<side, p>> \in echoed
           \/ p \in DOMAIN screen[side] /\ screen[side][p] = MapOf(side)[p].value]_dvars
===============================================================================
