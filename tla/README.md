# tob: top of book, in TLA+

`tob` connects to a cryptocurrency exchange and shows the three best buy and sell
levels of one order book, refreshed every second. It keeps the book up to date
from a stream of changes (a websocket) and needs one complete snapshot (HTTPS) to
start from; both are JSON, read with a copy of jsoncpp that is part of the
repository. This directory holds TLA+ models of it, the TLC runs that check them
on small instances, and proofs for instances of every size.

Run a check with `tlc -config X.cfg M` and a proof with `tlapm M.tla`, in this
directory. `PROJECT.json` lists the runs, which lines of the code each definition
stands for, and the hazards of the code with the properties that are about them.

## 1. The system

One thread. `main.cpp` polls two sockets, runs their callbacks, and works on the
shared state after each round of events.

| Part | State | Operations | Used by |
|---|---|---|---|
| `LimitedMap` (limited_map.hpp, .tpp) | a sorted `std::map` from price to amount and previously printed amount; `m_end`, an iterator that stops a walk after `m_depth` levels | `update`, `erase`, `clear`, `begin`, `end`, `empty` | `OrderBook`, once for the bids (highest first), once for the asks (lowest first) |
| `OrderBook` (order_book.hpp, .cpp; order.hpp) | two `LimitedMap`s, `m_last_timestamp` | `add`, `print`, `clear`, `operator bool`, `get_last_timestamp` | the snapshot socket adds levels, the main loop adds queued changes, prints, clears |
| `Orders<1000>` (orders.hpp, .tpp) | a queue of shared pointers into a pool of 1000 orders | `add_order` (throws when the pool is empty), `get_order`, `get_first_timestamp`, `clear` | the diff socket adds, the main loop takes |
| `DiffLogic` (diff_logic.hpp, .tpp) | websocket state (handshake, response, in work), read buffer, output queue | `on_read`, `on_write`, `on_close` | callbacks of the diff socket |
| `Frame` (frame.hpp, .cpp) | one websocket frame | `serialize`, `deserialize` | `DiffLogic` |
| `ReceiveOrderBookLogic` (receive_order_book_logic.hpp, .cpp) | TLS state, request and offsets, body buffer | `on_read`, `on_write`, `on_close` | callbacks of the order book socket |
| main loop (main.cpp) | `order_book_ready`, the two sockets, `reconect_timer`, the time of the last print | a round: events, empty book, first snapshot, drain, print | |
| `Json::Reader` (json/jsoncpp.cpp) | the document and a place in it, a stack of nodes, errors, comments not yet attached | `parse`, `pushError`, `getFormattedErrorMessages`, ... | both callbacks |
| `Json::Value` | a scalar, or a map of members or elements; comments; offsets | access, change, `resize`, `removeIndex`, conversions | both callbacks |
| `Json::Path`, the writers | the expression's arguments; the document written so far | `resolve`, `make`; `write` | part of the library; the program uses neither |
| jasl (sockets, poller, timer, pool), OpenSSL, the exchange | | | external: not in the repository, modelled from how it is used |

How a round goes: `poll()` reports sockets; their callbacks queue changes
(`Orders`) and fill an empty book from a snapshot (`OrderBook`). Then, while the
book has no level, the round is over. While the book has not been accepted, a
snapshot older than the first queued change is thrown away and fetched again after
20 seconds; an acceptable one sets `order_book_ready`. Then all queued changes are
added to the book, and once a second the book is printed.

What is hard about it, and the properties that matter:

- **A window that is moved, not recomputed.** `LimitedMap` never counts its window
  again; an iterator moved by at most one position per call must stay right through
  any sequence of updates and erasures, and must not be left on an erased element.
  -> `EndMarksDepth`, `WalkIsBest`, `ImplementsTable`, `DroppedIsForgotten`.
- **What the reader of the screen may conclude.** Highlighting depends on a
  "previous value" that updates overwrite. -> `ScreenShowsBest`, `NoSilentChange`.
- **An iterator before an empty map.** `print()` decrements `end()` before it looks.
  -> `ImplementsPriceBook` (with the crash as part of the abstract book),
  `DiesOnlyWithoutAsks`.
- **Two connections that race.** Snapshot and feed start in either order, and only
  timestamps, in seconds, say how they fit together. -> `BookIsTruth`,
  `EveryChangeApplied`.
- **A bounded pool.** -> `SlotsAccounted`, `ImplementsFifo`, `QueueIsFeed`.
- **Stalls.** A book that has been emptied by changes, or a snapshot that breaks,
  stops the loop from draining. -> `StallsOnlyOnEmptyMarket`, `EveryChangeApplied`.
- **Two callbacks that share one TLS handshake**, and a buffer that is replaced while
  its old size is in use. -> `ConnectionEnds`, `ReadsStayInside`, `ParsesWholeBody`,
  `StuckForAReason`, `RoomyAnswerIsUsed`.
- **A byte stream in arbitrary pieces.** One frame per read, a length in three forms,
  writes cut anywhere. -> `FramesInTurn`, `BacklogIsExcess`, `RoomForMore`,
  `OutputInTurn`, `FramesEndWhereSent`.
- **Recursive descent with error recovery.** Stacks that must follow the calls on
  every path, pointers into a tree that is still changing, comments that belong to
  the value before or after. -> `StacksFollowCalls`, `PointersAreAlive`,
  `ReadsItsGrammar`, `CommentsAreKept`.
- **Data at the edges of its type.** -> `RoundTrip`, `ExactOrReal`,
  `ConvertibleConverts`, `LexesWhatWasWritten`, `LocationsAreRight`.

## 2. The modules

| Module | What it is |
|---|---|
| `TopLevels` | abstract: a table of levels and a window recomputed at every step |
| `LimitedMap` | the map with the moving iterator; implements `TopLevels` |
| `PriceBook` | abstract: a table of amounts per side and price that takes every order at least as recent as the last |
| `OrderBook` | `add`, `print`, `clear` over two instances of `LimitedMap`; implements `PriceBook` |
| `OrderBookDisplay` | `OrderBook` with the orders it was given and what `print()` writes |
| `OrderQueue` | abstract: a first-in first-out queue with N orders outstanding at most |
| `Orders` | queue of pointers, pool slots, and the consumer's pointer; implements `OrderQueue` |
| `Tob` | the main loop with the exchange, both sockets, the queue and `PriceBook` in the place of `OrderBook` |
| `SnapshotSocket` | the callbacks of the order book socket, with OpenSSL, the network and the poller |
| `Frame`, `FrameReader` | the length forms of a frame; a receiver that takes frames off a stream |
| `DiffLogic` | the callbacks of the diff socket over `Frame` |
| `JsonReader` | `Json::Reader`'s recursive descent over tokens |
| `JsonGrammar`, `JsonReaderChecks` | abstract: the grammar and the value a document stands for; what the reader promises in their terms |
| `JsonScan`, `JsonLexer`, `JsonText` | from bytes to tokens; numbers and strings to text and back |
| `JsonErrors` | errors a caller adds, with offsets into a document that may be another one by now |
| `JsonContainer`, `JsonValue` | abstract: a sequence or a function; `Json::Value` as a map with holes, which implements it while it has none |
| `JsonConvert` | the conversions of a value, with widths as parameters |
| `JsonPath` | `Json::Path`: the expression taken apart, `resolve()`, `make()` |
| `JsonData` | `JsonValue`, `JsonLexer`, `JsonText`, `JsonConvert` and `JsonPath` side by side, with what they promise |
| `JsonWritten`, `JsonFastWriter`, `JsonStyledWriter`, `JsonStreamWriter`, `JsonWriters` | what is to be written and how it reads; the three writers; each called for a value |
| `LimitedMapProofs`, `OrdersProofs`, `OrderBookProofs`, `TobProofs`, `SnapshotSocketProofs`, `DiffLogicProofs`, `JsonReaderProofs`, `JsonDataProofs` | proofs |
| `MC...` | instances for TLC |

`Tob` is where the parts meet. It keeps of each neighbour what the loop can see:
`PriceBook` for the book, a bounded sequence for `Orders`, a feed that delivers
messages in order until it breaks for `DiffLogic`, and a snapshot that is whole, cut
or missing for `ReceiveOrderBookLogic`. That the parts keep these promises, and when
they do not, is what the other modules are about.

### LimitedMap

`m_map` is a function from the present prices to `[value, prev_value]`; `m_end` is
the key it points to, or `End`. That is what a `std::map` iterator is: it stays on
its element when others come and go. `Pred` and `Succ` are `--` and `++`. `update()`
is `Overwrite` when the key is there (the early return) and `Insert` when it is
not; the cases of line 29 to 44 are `EndAfterInsert`. `erase()` is `Erase` with
`EndAfterErase`. `MarkPrinted` is what `OrderBook::print()` does to the map through
`print_level()`. The comparator is a constant operator, assumed to be a strict
total order, which `std::less` and `std::greater` on `uint64_t` are.

In the refinement the table is the map without `prev_value`, and the window is
`Walk`, the elements from `begin()` to `m_end`.

### OrderBook

Two instances of `LimitedMap`, one per side. An order with amount 0 erases, any
other updates; an order with an earlier timestamp than the last one taken changes
nothing. `print()` with no ask decrements the iterator of an empty map. That is
undefined behaviour; with the library this program is built with, the function
follows the null parent pointer of the map's header and the process dies, which is
the outcome modelled (`crashed`). The mutex makes every operation one step.

A refinement allows a step that does nothing, so `ImplementsPriceBook` alone would not
notice an order that is dropped. `OrderBookDisplay` therefore books every order in a
history variable, `ledger`, that the maps must agree with (`BookFollowsOrders`). It also
adds `screen` (the lines of the last print) and `echoed` (the
levels that were set to the amount they already had since they were last printed).
The last states an exception the code has: `update()` stores the old amount as
`prev_value`, so a level changed from 1 to 2 and then set to 2 again is printed
without highlight although the reader has never seen the 2. `NoSilentChange` says
that this is the only way an unseen amount goes unmarked.

### Orders

`Pool` is external. What the code relies on is modelled: `get_shared()` constructs
an order in a free slot or returns null; the slot is free again when its last
pointer is gone. The consumer's `order = orders.get_order()` is two steps, the call
(under the lock) and the assignment (which lets go of the order held before): in
between two slots are outstanding outside the queue. The program adds and takes in
one thread; the queue has a lock and is modelled for a producer and a consumer that
interleave.

### Tob

The exchange publishes messages of one or more changes, each with the time of its
clock in seconds (`history`; a *position* is an index into it). The feed delivers
the changes after the position at which the subscription began, in order. A
snapshot is the exchange's book at the position and time at which it answers, and
arrives some time later. `Faults` lets the connections break for good, which is what
the code makes of it: it never reconnects a socket that breaks. It also lets a
snapshot or a message of the feed hold a level that `std::stod` refuses: the levels before
it stay in the book or the queue, and the socket is closed.

`pc` walks through a round: `poll`, `events` (with `diff` or `snapshot` while a
callback adds its orders one by one), `check` (lines 110 to 139: `CheckEmpty`,
`Reject`, `Accept`), `drain`, `print`, and `dead`. The environment may act between
any two steps. `poll()` reports every socket with input. `QueueDiff` is
`add_order()`; when it or `std::stod` throws, the rest of the message is lost and the
loop's exception handler closes the socket. The capacity test counts the queue only,
because the loop at line 141 ends with a null pointer in `order`. The snapshot
fills the book through `PriceBook!Add`, a level at a time, bids first.

The queue holds the changes themselves; `last` marks the end of a message and is
the framing of the feed, not a field of `Order`.

`received` is the position up to which the feed was queued, `applied` the one up to
which the loop took it. `Position`, the later of `applied` and the snapshot's, is
what the book should be compared with.

### SnapshotSocket

Sizes only: an answer has a header and a body of so many bytes and travels in TLS
records. Three counts say how far it has come: `arrived` at the client's host, `taken` off
the socket by OpenSSL, a record as a whole, and `given` out by `SSL_read()`. What is
taken and not given is where no poller can see it. A call for no bytes takes a record too
(`ReadsNothing`), and so may hide the last one. The poller reports
conditions or changes of conditions (`Pollers`); jasl is not in the repository, so
both are checked. Reading comes before writing in a round.

`m_wait_for_read` decides whether `on_read()` or `on_write()` goes on with the
handshake: every outcome of `SSL_connect()` is a disjunct (`WantsRead`, `WantsWrite`,
done, error). The loop of `on_read()` is a step per turn, with `buffer_size` as the
local it is: taken before the loop, and stale once `process_header()` has replaced
`m_buffer`. `SizeFor` is that replacement; the buffer never shrinks. After the loop,
the body is processed when `m_read_offset` is the size of the buffer (`BufferIsFull`),
which need not be the size of the body. `Faults` are flawed answers, a server that
refuses TLS or shuts it down, and a socket that takes no output for a while.

### DiffLogic, Frame and FrameReader

The server's stream is its handshake response and then its frames; `sent` keeps the
kind of each and where it ends in the stream (`EndAt`). `m_buffer` holds the `m_offset`
bytes behind the first `base` of it. `Arrive` makes any number of bytes
available, so a read ends anywhere. A turn of the loop in `on_read()` is one step:
`ReadResponse` (which sets `m_offset` to 0 and so forgets what came with the
response), `NoFrameYet`, or one of the `Take...`: one frame is taken per turn, however
many are complete. When forgotten bytes end in the middle of a frame, the reader is
out of step and what it takes for a header may say anything (`TakeGarbage`).
`WriteHandshake` does not look at what `write()` returns; `WriteFrame` does. `dropped`
and `excess` are history variables. A frame's payload is its kind; an `order` frame
carries levels, and any of them may end it half-way: `add_order()` refuses it, or `std::stod`.

`Frame` gives the header's length forms as `serialize()` and `deserialize()` have
them; `FrameReader` feeds frames of this program and of a conforming peer to
`deserialize()` with bytes arriving in pieces. `MCDiffLogic` puts the two side by side;
its constant `Lengths` are the payload lengths of the single frames.

### The JSON library

Three levels, in separate modules.

*Bytes and tokens.* `JsonScan` gives the end of a token that begins at a place;
`JsonLexer` takes a document apart, the line and column of each token computed the
way `getLocationLineAndColumn()` does. `JsonText` holds what the writers make of
integers and strings and what `decodeNumber()`, `decodeDouble()` and `decodeString()` make
of text, with UTF-8 and surrogates. Of a double there is only whether the text is one and whether
it overflows, which `operator>>` reports as a failure: `maxDouble` is the largest integer that does not,
and `WholePart` the number without its sign and fraction.

*Tokens and values.* `JsonReader` is the recursion made explicit: `calls` are the
`readObject()` and `readArray()` under way, `nodes_` the reader's own stack, `pc` the place
in the innermost call. A token is chosen when the reader comes to it, which enumerates
all documents while sharing their beginnings. The tree is a function from paths to
kinds; a second member of a name takes away everything below the first. Recovery,
`putback` tokens, comments with their placement, the depth limit and the four features
are in the model, and so is a zero byte in the document, which is a token like its end (`EndOfStream`). `beyond` marks the one place where the reader looks at the byte
behind the document.

*Values.* `JsonValue` is the map of elements or members with `size()` as the
highest index plus one, which is what makes holes matter. `JsonConvert` keeps numbers
doubled, so that halves are integers, with the widths, the doubles and the way an integer
is rounded to one as parameters. In the run the doubles have fewer digits than the widest
integer, as in the code. `JsonPath` and the writers are functions
of the value; a written document is a sequence of tokens, blanks, line breaks
and comments, and reads as the value if the tokens outside line comments do.

## 3. The runs

| Run | Module | Distinct states | Properties |
|---|---|---|---|
| `limited_map` | `MCLimitedMap` | 16,807 | `TypeOK`, `EndMarksDepth`, `WalkIsBest`, `DroppedIsForgotten`, `ImplementsTable` |
| `order_book` | `MCOrderBook` | 50,218 | `BookFollowsOrders`, `ImplementsPriceBook`, `ScreenShowsBest`, `NoSilentChange` |
| `orders` | `MCOrders` | 1,612 | `TypeOK`, `SlotsAccounted`, `ImplementsFifo` |
| `tob` | `MCTob`, `MCTob.cfg` | 7,933,328 | `QueueIsFeed`, `BookIsTruth`, `StallsOnlyOnEmptyMarket`, `DiesOnlyWithoutAsks` |
| `tob_live` | `MCTob`, `MCTobLive.cfg` | 663,966 | `EveryChangeApplied` |
| `snapshot_socket` | `MCSnapshotSocket` | 108,710 | `ReadsStayInside`, `ParsesWholeBody`, `StuckForAReason`, `ConnectionEnds`, `RoomyAnswerIsUsed` |
| `diff_logic` | `MCDiffLogic` | 744,690 | `FramesInTurn`, `BacklogIsExcess`, `RoomForMore`, `OutputInTurn`, `FramesEndWhereSent` |
| `json_reader` | `MCJsonReader` | 2,786,346 | `StacksFollowCalls`, `ReadsItsGrammar`, `PointersAreAlive`, `CommentsAreKept` |
| `json_writers` | `MCJsonWriters` | 1,138,200 | `ReadsBack`, `CommentsAreWritten` |
| `json_data` | `MCJsonData` | 253,828 | `LocationsAreRight`, `LexesWhatWasWritten`, `RoundTrip`, `ExactOrReal`, `ConvertibleConverts`, `MakeIsAllOrNothing`, `IsContainer` |
| `json_value_resize` | `JsonValue` | (violation) | `SizeIsAsked` |
| `json_errors_limit` | `JsonErrors` | (violation) | `LimitsAreInText` |

### Bounds, and why they are enough

- `limited_map`: with five keys around a window of two, keys come and go on either
  side of the window, in it, at its edge and at its end, with up to three levels
  beyond it. The proofs remove the bound.
- `order_book`: one bid and two ask prices, a window of one level, so that an ask
  drops out and comes back within three operations; amounts 0 to 2, orders with the
  time of the last one, before it and after it. Bids run the same code in the other
  order, which the proofs on `LimitedMap` cover for every comparator.
- `orders`: with three slots the pool is exhausted with two orders queued behind one
  in hand, and with one queued behind two in hand. The proofs remove the bound.
- `tob`: one price per side, amounts 0 and 1 (a level is there or not), three changes
  in messages of one or two, a queue of two, three seconds. Enough for: a snapshot
  before, between and after the messages; a rejected snapshot and a second one; a
  message that overflows the queue in its middle; a book emptied by a drain; a book
  left without asks when it is printed; messages that share a second, with a change
  lost between snapshot and feed; a snapshot cut short by a malformed level.
  The bounds are named in the module (`MaxOrders`, `MessageSize`, `MaxTime`).
  `tob_live` has two changes and all three faults.
- `snapshot_socket`: a buffer of three bytes; headers smaller and larger than it,
  bodies smaller, equal and larger up to three times; records of two and four bytes, so
  that one holds the end of the header and the start of the body, or ends with either;
  two messages of the server in the handshake.
- `diff_logic`: a buffer of nine bytes against frames of two to four: two fit and a
  third does not. Three frames of four kinds, every segmentation. Single frames have
  payloads on both sides of 125/126, 65535/65536 and of the point where 16 bits wrap.
- `json_reader`: documents of six tokens reach an error inside two containers and a
  second error behind it; with a depth limit of three they also exceed it. A member that replaces
  another while comments wait needs eleven tokens, with an alphabet cut down to that. What
  follows an error is looked at in documents of six tokens (`ShortRecovery`).
- `json_writers`: trees of up to three levels with every placement of comments, line
  comments that end in a blank among them, all settings of the stream writer, and
  lines of thirteen characters (`rightMargin_`) that hold two short values and not three.
- `json_data`: 16 bits instead of 64 and 8 instead of 32; values up to twelve around
  each limit, which is more than one decimal digit; a largest double of ten times the largest
  integer, so that digits and exponents come to both sides of it; all documents of four bytes out of
  the dozen that the scanner tells apart; arrays of three elements; expressions of three
  segments. The parts do not interact; the variable `part` says which is at work.

Deadlock is checked where the system cannot stop (`limited_map`, `orders`). In the other
runs it is not: the process may die of `print()`, a connection ends, the exchange and
the server have said what they had to, a document is read.

### What they show about the program

- **The start-up race.** The accepted book equals the exchange's book at the latest
  position heard of, at every step of a drain. The exceptions are named in
  `BookIsTruth`: with messages that share a second the comparison on line 130 of main.cpp
  accepts a snapshot although changes of the same second lie between it and the feed
  (these levels stay wrong until they change again); and a snapshot cut short by a
  malformed level is taken for a whole one.
- **Stalls.** When changes take the last level of an accepted book, the loop stops
  draining for good: it waits for a snapshot that it never requests, because the socket
  pointer is still set. While the book is right this happens only when the exchange's own
  book is empty (`StallsOnlyOnEmptyMarket`). A snapshot that breaks, is cut before its
  first level, or has no level, stalls it too; there is no other way for a queued change
  to be ignored for ever (`EveryChangeApplied`).
- **The crash.** `print()` kills the process only when the exchange has nothing on sale,
  while the book is right (`DiesOnlyWithoutAsks`).
- **The snapshot's buffer.** It is never overrun, and a body is parsed only once and
  whole. But the test is whether it fills the *buffer*: an answer with a body
  smaller than the initial buffer is never used; and one whose first read ends where
  the old buffer size says, with the rest already decrypted or reported, waits for an
  event that does not come (`StuckForAReason` says there is no third case,
  `RoomyAnswerIsUsed` which answers are safe). The rest is hidden even when it begins just where
  the old size says: with no room left the loop asks `SSL_read()` for nothing, which takes the record off
  the socket all the same. Comparing `m_read_offset` with
  `m_json_full_size` on line 158 would remove the first.
- **The feed's buffer.** As long as the bytes that came with the handshake response
  were whole frames, frames are handled once and in order (`FramesInTurn`). `on_read()`
  falls behind by one frame for every frame that ends in the same read as another, and
  for every empty PING, and never catches up by itself (`BacklogIsExcess`); the buffer
  does not fill up from it (`RoomForMore`).
- **Frames.** `serialize()` takes the 16-bit length form for more than 64K bytes
  (frame.cpp:26); nothing but such a frame is read with a wrong end
  (`FramesEndWhereSent`). The program writes none.
- **The JSON reader.** Stacks follow calls on every path, errors included. It accepts
  its grammar and no more, with two exceptions named at `ReadsItsGrammar`: a comma behind
  a member named `""` (jsoncpp.cpp:643, `name` is not cleared), and a byte behind the
  document taken for a `]` (692).

The two runs that expect a violation check what the code says of itself:

- `json_value_resize`: `resize()` upwards creates only the last element (3251); a
  later `resize()` downwards finds `size()` smaller than asked, against
  `assert(size() == newSize)` on line 3256 of jsoncpp.cpp.
- `json_errors_limit`: `pushError()` sets the end of an error's token to
  `end_ + value.getOffsetLimit()` (1041), behind the document; json.h:1251 says the
  offsets are a range of bytes within the text.

Other places where the code does what one would not expect, met while
modelling and part of the modules, without a run of their own. Line numbers are those of
jsoncpp.cpp:

- `strictMode()` accepts comments between tokens (639).
- A comment behind a member makes the reader take any token for the comma (677).
- `-` alone and leading zeros are accepted as numbers (742); a high surrogate is combined
  with whatever `\u` escape follows (877).
- `pushError()` compares one end of the second value with the document, not the other (1054).
- `asInt64()` of a double compares with a limit that is not a double itself (3046).
- `resize()` leaves holes, which `removeIndex()` creates elements in (3250, 3471).
- Behind `[%]` the expression's bracket is never found, and two `%` take the same
  parameter (3783, 3815); an embedded NUL keeps `makePath()` in its loop (3799).
- `StyledWriter` takes a position behind a blank for indented (4424): behind a line
  comment that ends in a blank, what follows is swallowed. Without an indentation,
  the writer of `StreamWriterBuilder` writes line comments with what follows on the
  same line (4923). `ReadsBack` names the two as exceptions (`BlankIsTaken`, `LineNeverEnds`).

### Fairness

Two runs use it.

`tob_live`: weak fairness of the loop as a whole (`poll()` returns when its timeout is
over, so the single thread always takes its next step; every socket it reports is
handled before the round ends, by the loop of lines 86 to 108, so no stronger
fairness for the events is needed), of the timer, and of the exchange's answer to a
request. Nothing is assumed about the exchange publishing or accepting the
subscription, nor about connections staying up: where a break stalls the loop the
property says so.

`EveryChangeApplied` covers both halves of the start-up: a change is applied only
after a snapshot was accepted, so rejecting snapshots for ever would violate it.

`snapshot_socket`: weak fairness of the client (`main()` polls for ever), and of what is
on the way arriving. `ConnectionEnds` has the condition that the socket takes output for
good from some time on; without it a server that never reads keeps the handshake
waiting.

## 4. The proofs

Eight modules. Each theorem is for every value of the constants that the named
assumption of its component admits (`...Assumption`, evaluated by TLC in every run).
These are what the code gives: natural numbers for unsigned ones, a read buffer of more
than two bytes (diff_logic.hpp:20), a depth of at least one for the book (main.cpp
constructs it with 3; `LimitedMap` is proved for 0 too), a finite set of prices (they
are 64 bits wide), a clock that runs (`MaxTime > 0`). Histories, streams, documents
and answers are of any length up to a bound that is a constant itself.

Of the 40 properties of the passing runs, 33 are theorems. The other seven are in the
list at the end.

**`LimitedMapProofs`**: `TypeCorrect`, `EndAlwaysMarksDepth`, `WalkAlwaysBest`,
`DroppedAlwaysForgotten`, and `Implementation` (`Spec => ImplementsTable`), for every set
of keys, every amount, every depth (0 included) and every strict total order.

The inductive invariant is `TypeOK /\ EndMarksDepth`: the iterator is the end of a
map in which everything fits, or an element with exactly `Depth` elements before
it. Neither half is inductive alone: without the second, `erase()` would read
through `m_map.end()`; without the first, the neighbours of `m_end` need not exist.
One lemma per operation shows it is preserved. They rest on lemmas about positions
in a finite, totally ordered set: a non-empty one has a last element
(`ExtremeExists`, by well-foundedness of the strict subset order), hence `--` and
`++` are the neighbours (`PredIsLastBefore`, `SuccIsFirstAfter`). `WalkIsBest`
follows: the elements before `m_end` are those with fewer than `Depth` better ones.
The refinement maps each operation to the table's and `MarkPrinted` to a stutter.

**`OrderBookProofs`**: `BookAlwaysFollowsOrders`, `ScreenAlwaysBest`,
`ChangesAlwaysMarked`, and `Implementation` (`DSpec => ImplementsPriceBook`).

A theorem about `LimitedMap` cannot be cited for its two instances in `OrderBook`, so
what it says is proved again here, once for both sides: the lemmas speak of a side
`s`, the order of its prices is `Better(s, a, b)`, and only four lemmas look into the
instances (`BidsUpdate`, `AsksUpdate`, `BidsPrint`, `AsksPrint`). The inductive invariant says
of either side that its iterator marks the depth of its prices (`SidesPlaced`), that the
maps hold the ledger's amounts and both have the same time, hence take the same
orders, and `Explained`: a level that would be printed without highlight is on the
screen with this amount, or was set to the amount it had. `Explained` is what makes the
property about two prints inductive between them, and it needs the window: a level that
leaves it must be forgotten, because otherwise it would come back without highlight
although the screen has shown others meanwhile. `ScreenAlwaysBest` and the refinement's
`print` follow from `SidesPlaced` (what lies before the iterator is the best of the table);
the crash of an empty ask side is the same in both specifications.

**`OrdersProofs`**: `TypeCorrect`, `SlotsAlwaysAccounted` and `Implementation`
(`Spec => ImplementsFifo`), for every pool and every set of orders. The inductive
invariant is the conjunction of the first two, with one lemma per operation: each
moves a slot from one of the three places to another. The refinement needs more than
the invariant: the abstract queue refuses an order when N are *outstanding*, the
code when no slot is *free*. `OutstandingCounted` shows that the slots in use are as many
as the orders queued and in hand, because no slot is in two places; `DataOf...` that what
the pointers refer to stays the same while slots come and go.

**`TobProofs`**: `QueueIsAlwaysFeed`, `BookIsAlwaysTruth`, `StallsOnlyThen` and
`DiesOnlyThen`, for every capacity, message size, set of prices, history and set of faults.

For the first, `Inv` adds to `QueueIsFeed` that what a callback still has to queue comes
next in the feed (`TodoFollows`), without which `QueueDiff` could append something else,
and that nothing is queued before the feed has a beginning (`NothingBeforeFeed`), without
which the subscription would move `applied` past queued orders.

The others are about the start-up race. `BookInv` is built from ten named parts, on top
of `Inv`. The exchange: timestamps do not decrease, and a message changes a level once
(`HistoryOrdered`). The feed starts between two messages (`FeedStart`). The snapshot
divides the history by its second: before it no later timestamp, behind it no earlier one
(`SnapshotTimed`). While the snapshot is added, each level is right or among those
still to come (`Filling`), and afterwards right or cut off (`Filled`). `Joined` is what
the comparison on line 130 of main.cpp establishes: the changes that neither the snapshot
nor the feed holds are of the snapshot's second, and none of those still to be taken is
older than the book, so that the book takes them all. `LevelsExplained` says of every
level why it is what it is: the exchange's amount, a change lost between snapshot and
feed in the same second, a change of the snapshot's second that the snapshot already
had and the feed brings again (until it does, an earlier one of that second may stand in
the book), or a level that the cut snapshot lacked. The third of these is no exception of
`BookIsTruth`: it shows only in the middle of a drain, and the proof had to find out
that it disappears within it. `StallsOnlyThen` and `DiesOnlyThen` follow from
the same explanation with `Rounds`, which says what `pc` implies of queue and book.

**`SnapshotSocketProofs`**: `ReadsAlwaysInside`, `ParsesOnlyWholeBody` and
`NoOtherWayToStick`, for every size of buffer, header, body and record, and either
poller. The length of a read comes from a size taken before the buffer was replaced;
`BufferBounds` says why that is safe: the stale size is at most the present one, because
the buffer only grows, and `m_read_offset` is at most either while the loop runs.
`Stream` and `HeaderRead` tie `m_read_offset` to the bytes given out, which have
come by whole records; hence a body is parsed when all of it has been given.
`Idle` says what an idle socket means: the last call of `on_read()` had no room for more, or
left nothing, or the poller will report again. The two ways to get stuck are the
first two of these with a buffer larger than the body, or smaller than what has arrived.

**`DiffLogicProofs`**: `AlwaysInTurn`, `BacklogAlwaysExcess`, `AlwaysRoomForMore`,
`OutputAlwaysInTurn` and `AlwaysEndWhereSent`, for every size of the buffer, the
response, the request and the frames, every pool, and every way the bytes are cut.

`Stream` places the frames: each ends behind the one before it, and no more has arrived
than was sent. `Buffer` relates `base` and `m_offset` to that. `DeserializeFacts` is what the
rest knows of a frame: `deserialize()` answers with its size when all of it is there and
with 0 only when it is not, or for an empty frame with nothing behind it. With it every
turn takes exactly the frame at `base`, and the frames handled become one more, which
is `FramesInTurn`. `BacklogIsExcess` counts: a read adds the frames that end in it to the
backlog and a turn takes one (`BacklogTaken`), so a read in which *k* frames end
leaves *k* - 1 behind, which `excess` counts. `RoomForMore` holds because a turn that
takes nothing leaves an incomplete frame in front, which is not larger than the buffer.
`Output` says for the queue what `OutputInTurn` says for the wire: the frames in it are
numbered without a gap, and the part of the first that was written ends what is on the
wire. `AlwaysEndWhereSent` is about single frames of every length, with the 16-bit length
of `serialize()` as `% 65536`.

**`JsonReaderProofs`**: `StacksAlwaysFollow`, `PointersAlwaysAlive` and
`CommentsAlwaysKept`, for every document, set of features and depth limit. For the second
the invariant relates the reader's stack to depths in the tree (`Len(nodes_[i]) = i - 1`, and
the last value is at most one deeper than the container at hand): what a repeated member
destroys is deeper than the member, and neither the stack nor the last value points
there. For the first it says where an error may have come before: containers at work have
seen none, and only error paths leave a count of depth behind. The third is an action
property: no step may forget a comment (`StepKeeps`). `PlacesSuffice` reduces it to two
facts about a step: a place with a comment is lost only with its value, and what waits
for a value is hung up when `commentsBefore_` is emptied (`HungIs`), in the error paths of
`readValue()` too.

**`JsonDataProofs`** is about the parts of the library that work on data.

`ImplementsContainer` and `DenseSizeIsAsked` have the
hypothesis `~ SparseArrays` (no call creates an element beyond the end of an array). The
invariant is that both values are dense: the indices of an array are those below its
size. Then `size()`, which the code takes from the highest index, is the number of
elements, and each call is the container's: `StoreElement`, `ReachElement`, `DropElements` and
`RemoveElement` show it for the map of an array, the lemmas named after the calls for the
value. `DenseSizeIsAsked` is the other side of the run `json_value_resize`: the `assert()` in
`resize()` fails only where there are holes.

`ConvertibleAlwaysConverts`, `DigitsAlwaysExactOrReal` and `WrittenIsReadBack` are the
properties `ConvertibleConverts`, `ExactOrReal` and `RoundTrip`, of `JsonConvert` and
`JsonText`. Their hypotheses are the modules' `ConvertAssumption` and `TextAssumption`, which TLC
evaluates in `MCJsonData`: limits of two's complement, any largest double, texts made of bytes; and of the
doubles that they round in order, hold every integer of 32 bits and the least one of 64,
and leave what is a double already as it is. So the first is about the doubles of 64 bits
as well, with their wide gaps.

What a function of a text computes is shown by induction over its length, in the form
`SetInduction`: a set of natural numbers that has 0, and with n also n + 1, has them all
(by well-foundedness of the order). It is applied to the set of the lengths, or places, for
which a statement holds. A fold, or a function defined by recursion, is first shown
to exist (`FoldExists`, `TableExists`, `DescentExists`), which is the same induction over the
length of its domain; only then does its definition, a choice, say anything about it.

- *Digits.* `DigitsAlwaysExactOrReal` has three outcomes: the integer when it fits, a double when the
  largest is not exceeded, and otherwise the error of `decodeDouble()`, where `operator>>` fails
  (`DigitsAreDouble`: the whole part of digits is the number they stand for). `readInteger()` stops where the next digit would not fit.
  That it goes on exactly while the value of the digits fits is an induction over
  them (`ReadIs`), with the arithmetic of the threshold in one lemma. `uintToString()` prints digits that come to the number
  (`UintIs`). Together they give what is decoded of a written integer, the least one
  included, whose absolute value has no type of its own.
- *Strings.* A written string is a row of moves: a plain byte, a short escape, the
  escape of a code unit, or one in two halves. `readString()` passes over a move as a whole, so that
  no byte in one is taken for the closing quote, and `decodeString()` makes of it the
  byte, or the code point's UTF-8. Both functions go from left to right and are defined by
  what they do further right, so the induction runs from the end. The escape of a
  high surrogate alone is the exception that `CodePoints` leaves out.
- *Lines and columns.* `LocationsAlwaysRight` is `LocationsAreRight`, of every document; its
  hypothesis, `LexerAssumption`, says that the byte behind the document is no line feed (it is the
  zero of a `std::string`), because `getLocationLineAndColumn()` looks at it behind a
  last carriage return. `Agree` compares the place of the last line's start and the number of
  lines with the normalised text in front, byte by byte: a line feed swallowed with its carriage return moves
  the start on by one and adds nothing to the text. `LexerInv` says where tokens come
  from: each is what `readToken()` makes at some place.
- *Paths.* `MakeAlwaysAllOrNothing` is `MakeIsAllOrNothing`, of every expression, every value and
  every range of indices. `PathAssumption`, which TLC evaluates in `MCJsonData` too, says that values are
  trees (what has elements or members is an array or an object), that there are more than ten
  indices, and that the alphabet holds what documented expressions are written with.
  The property compares `make()` with documented expressions of up to three segments, the
  proof does so for any number of them.
  `Underway` is the invariant of the loop of `make()`: either nothing was created yet, or
  the node reached is a null that `make()` itself created. A null fits any argument, so only
  the first case can throw. `FoundByName`: in a tree a node is found by the arguments that lead to it, by both
  `resolve()`s. For `makePath()`, `Reached` says of every documented expression that the
  arguments are the names of so many segments, and `current` is behind them, or behind the dot
  of the next. Behind a name or an index there is a dot, a bracket or the end (`BehindPiece`),
  so no name takes a character of the next segment.
- The invariant `TextInv` ties the three variables together: the document is the text of what
  was written, if anything was, and what is decoded is what the document says.

Only model-checked:

- `ReadsItsGrammar`, `ReadsBack`, `CommentsAreWritten`: the grammar and the writers are
  recursive operators over trees. The prover has no SMT backend for a module with recursive
  operators, and the induction would be over trees and over the stack of calls at once.
- `LexesWhatWasWritten`: its documents are a set of lexemes and blanks given by their bytes;
  there is no parameter that a theorem could be more general about.
- `EveryChangeApplied`, `ConnectionEnds`, `RoomyAnswerIsUsed`: liveness. The prover does
  not reason about fairness.

## 5. Not modelled

- `OurReader` and `CharReaderBuilder`: a second copy of `Json::Reader` with more options
  that nothing in the program uses. `StyledStreamWriter`: the control of `StyledWriter` over a stream.
- Of `Json::Value`: comparison, iterators, and who owns the memory of strings. The two
  modules that would need offsets of values and the recursive descent at once are kept apart: offsets are
  in `JsonErrors` only.
- Which double `strtod` and `operator>>` make of a decimal fraction, and so `valueToString(double)`.
- What is in a frame's payload, and what a mask does to it: the program masks nothing.
  `strstr()` of the handshake response past the received bytes, over memory that was
  never written; and `strstr()` of the snapshot's header past a buffer that is full
  (receive_order_book_logic.cpp:53): the model assumes that a zero comes before a delimiter there.
  A frame whose length wraps when it is added to a pointer (frame.cpp:121): a conforming peer's
  is below 2^63.
- The line feed that the writer of `StreamWriterBuilder` can put behind a document
  (`endingLineFeedSymbol_`): the builder always passes an empty one.
- The creation of sockets and `ssl_init()`; the wording and colours of the output.
- Orders of type `INVALID`, which nobody creates. The width of prices and amounts, which are
  compared and stored only; their conversion from text goes through `double` in both
  callbacks alike.
- The build files.
