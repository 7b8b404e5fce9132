# A TLA+ verification of matchbox

matchbox is a limit order book with a matching engine, a TCP gateway and a
resumable market-data stream. This directory models its components in TLA+,
checks them with TLC on small instances and proves, with TLAPS, what matters most
for every value of the constants. `PROJECT.json` is the index: components, runs,
mutants, the map from definitions to source lines, hazards, findings, theorems.

## The system and its parts

Two threads and two rings:

    clients --TCP--> gateway thread --inbox_--> engine thread
               (Server, Publisher)  <--outbox_--  (Engine, Book, OrderPool)
    subscribers <--TCP-- Publisher (ReplayRing)

The gateway thread polls sockets, parses order frames into `Command`s, pushes them
into the inbox ring, drains `Event`s from the outbox ring, answers sessions and
publishes Trades and Tops. The engine thread pops commands and calls
`Engine::process`, whose events it pushes into the outbox.

| part | state | operations | what is hard | what must hold |
|---|---|---|---|---|
| `OrderPool` (`order.hpp`) | slots, generations, free list | alloc, free, find | reuse of slots while old ids are still in flight, generation wrap | no leak, nothing used after it was freed, a late id finds nothing |
| `Book` (`book.hpp/.cpp`) | intrusive list, qty and count per level, bitmap, best prices | insert, remove, reduce, match | unlinking in the middle, levels that empty during a match, word boundaries of the bitmap, 32-bit sums | the links are the queue, best is the extreme, the scan finds the nearest price |
| `Engine` (`engine.cpp`) | pool, books | New, Cancel, Replace | replace that keeps or loses priority, leftovers of IOC, full pool, when Top is due | price-time priority, never crossed, responses add up |
| `SpscQueue` (`spsc_queue.hpp`) | indices, cached indices, buffer | try_push, try_pop | stale loads, index wrap, unsynchronised copies | a bounded FIFO, no data race, progress |
| `EngineThread`, `Server::run`, `main` | the two rings, stop flags | submit, drain, loop, on_event, stop | each thread spins on the other's ring; shutdown with events in flight | rounds end, the program ends |
| `ReplayRing`, `Publisher`, `Conn` | ring of frames, a cursor and a tx buffer per subscriber, clocks | publish, subscribe, on_readable, on_writable, flush_all | laps, partial flushes, limits, late peers, a dirty flag shared by all | the stream is contiguous or says what is missing; bounded memory; catch-up; heartbeats; stalled peers go |
| gateway sessions (`server.cpp`) | sessions, fd tables, dirty list | accept, read, parse, respond, close | stale events and reused descriptors, responses for closed sessions | responses reach the session they are for, in order |
| market-data clients (`main_client.cpp`, `mdstream.py`) | position in the stream, counts, bytes of an unfinished frame | connect, subscribe, handle a frame, time out, resume | connections that end or go silent at every point, server restarts | no frame twice, none passed over that is retained, loss counted right, back in step |
| drivers (`replay.py`, load client, bench), args, stats, clock | - | - | - | - |

The last row is left out (they drive the system or are stateless helpers); all the
others are modelled.

## Modules

    Matching         vocabulary: orders, commands, events
     +- OrderBook    ABSTRACT: queues per price, price-time priority
     +- Engine       pool + books + engine
         +- PriceTime    Engine  ==implements==> OrderBook
         +- OwnerView    + what owners learn from the responses
             +- MCEngine     instances for TLC (with PriceTime)
    PriceBitmap      bit-level scans;  Extrema, PriceBitmapProofs
    BoundedFifo      ABSTRACT: a bounded queue
    SpscQueue        ==implements==> BoundedFifo;  RingProofs
    Pipeline         the two threads and two rings (as BoundedFifo counts);  RingProofs
    MdFrames         vocabulary: the frames of the market-data port
     +- MdStream     ABSTRACT: what the port promises one connection
     |   +- MdClient     both clients on that promise;  MdClientProofs, MdClientOnce
     +- Publisher    publisher, sockets, peers, clock  ==implements==> MdStream, per peer;
                     PublisherPump, PublisherPeers, PublisherProofs
    ReplayRing       operators on the ring record, used by Publisher
    Gateway          sessions, descriptors, poll batches, frames, responses

**Engine.** `mem` holds what `OrderPool` and `Book` hold; `alloc`, `free`, `find`,
`insert`, `unlink`, `level_emptied`, `reduce`, `top` and `match_one` are the methods,
as functions from memory to memory. `New`, `Cancel` and `Replace` are `process` up to
`match_and_rest`; each `Fill` is one round of `Book::match` with its callback; `Rest`
is the remainder, the Top event included. Quantities and generations have the
widths `QtyMod` and `GenMod`. The fields `fifo` and `freeList` of `mem` are history:
the sequences the links should represent. Actions update them and read nothing from
them. An order's tag and timestamps are echoed and left out. `free` resets the fields
of a dead order, which the code does in the next `alloc`: nothing reads them in between.

**OrderBook** knows no slots, links, bitmaps or generations: a queue per symbol, side
and price; `Trade` takes the front of the best queue; `Top` appears when the top
differs from the last one shown. The refinement (`PriceTime`) maps `queue` through the
ghost `fifo` (`Queues`), which `LevelsWellFormed` ties to the real links; `Taker` is the
order being matched, `Shown` the tops as last published.

**PriceBitmap** has the loops of `scan_up` and `scan_down`, one step per word; a word
is the set of its one-bits. `Engine` uses the operators these loops are shown to
compute. The scans start at any price, not only next to the best one.

**SpscQueue** has one step per load, test, copy and store. An acquire load may return
any value from the one last seen to the current one. `copy` is the window in which
a thread touches the buffer.

**Pipeline** counts elements. A round of `Server::run` handles up to `Batch` frames;
a command causes 1 to `MaxEvents` events. Shutdown follows `main`: signal, `run`
returns, `engine.stop()` sets the flag and joins. `Batch` is a parameter because
nothing in `read_session` bounds it: it reads until the socket is empty. `OutboxCap` is
four times `InboxCap`, as in the constructor of `EngineThread`. `round` is history: the
number of frames the round began with.

**Publisher.** Time is kept as ages in milliseconds, capped where the code compares
them (`HeartbeatMs`, `StallMs`). Sockets take whole frames (`SockCap` of them): `out`
bytes of half-sent frames change no decision but the backlog's, and that by less
than a frame. A Subscribe frame arrives in two pieces, the header and the rest. A
peer may stop reading, close, or (with `Junk`) send something else. `quiet`
and `cause` are history: how long the peer took nothing, why it was dropped.
The poller and the sockets are external: readiness is a guard.

**MdStream** is the promise of the market-data port to one connection, without
buffers, sockets, limits or clocks: after a Subscribe the retained frames come once
and in order, what was lapped is named by one Gap at the place where it is missing,
a Heartbeat comes only at the head, and an end of the connection may take away what
was still on its way. `ImplementsMdStream` maps each peer of `Publisher` to it
(`Promise(p)`): `cursor` is `next_seq`, `chan` is the socket followed by tx.

**MdClient** runs one client, `run_md` ("cpp") or `Stream` ("python"), on that promise.
`client` holds the program's own variables (`from`, `last_seq` or `next_seq`, and
`frames`, `lost`); `heartbeat_cpp`, `gap_cpp` and `data_cpp` are the branches of
the callback, `handle_py` is `Stream.handle`, `reconnect` what the end of a connection
does. `Recv` reads a frame in two pieces, so that a connection can end with half a
frame in `rx`. `Drop` ends a connection after any prefix of what was on its way, and the
client gets an end of file, a reset, or nothing (`ending`): then only the heartbeat timeout
helps. A failing `read` is an end of the connection to `run_md` (`Eof`); `recv` raises, and
a `Stream` ends (`Raise`).
`Timeout` also strikes on a live link whose heartbeats are late. `Restart` begins a new
stream at seq 1 with an empty ring. Seqs are not reduced to 32 bits here; `lost` has the
width `LostMod`. `heard`, `live`, `first`, `origin` and `got` are history: has it handled a
frame, was it started without `--from`, where did its first subscription begin, where does
its account begin, what was delivered.

**Gateway.** `srv` holds the server's tables (`kind_by_fd_`, `sid_by_fd_`, `sessions_`,
`dirty_`, `next_sid_`), the publisher's descriptors and the kernel's side of the
connections; `track`, `session_by_fd`, `accept`, `close_session`, `send`, `flush`,
`flush_and_arm`, `on_event` and `flush_one` are functions on it. A round of `run` is
`Poll`; one `OnListen`/`Accept`, `OnWritable` or `OnReadable` for each event of the
batch, in any order; one `ParseFrame` for each frame; one `Drain` for each event; and
`Flush`. The batch is fixed at `Poll`, so an event may be dispatched after its
descriptor was closed and accepted again; `accept` takes the lowest free
descriptor. Readiness to read and to write are separate events, as with kqueue;
epoll's single event, dispatched write first, is one of the orders. A frame is two pieces, header and body, and a
client sends piece by piece. The engine is abstract: one answer for
each command, perhaps a fill for any session it knows, also one that has gone.
Of the publisher only what touches the tables is kept: it may drop a subscriber,
which leaves the `Subscriber` entry behind. `said` is history. The rings never fill
here (`RingCap` 6); full rings are Pipeline's subject.

Operators preceded by "Fault:" are mutants: a plausible bug in the definition that
follows. No specification uses them; each shows that a property can fail.

## What the runs show

Passing runs:

| run | checks | states |
|---|---|---|
| `engine_book` | one symbol and session, 3 slots, 3 prices, every order type and time in force, sums that wrap: `LevelsWellFormed`, `BestWellFormed`, `PoolWellFormed`, `NeverCrossed`, `OwnersKnowTheirOrders`, `RemainingAddsUp`, refinement of OrderBook | 55,217 |
| `engine_rejects` | 2 symbols, 2 sessions, 2 slots, generations that wrap: every reject, foreign orders, a full pool (refinement of OrderBook), `NewOccupantNewId` | 10,791 |
| `bitmap` | 3 words, the last one partly used: scans find the nearest price and end | 13,160 |
| `spsc` | capacity 2, indices that wrap after 2 laps: `NoRace`, the FIFO refinement, progress | 2,670 |
| `pipeline` | an inbox of 4, an outbox of 16, rounds of up to 6 frames, up to 5 events each: the threads wait for each other only after a burst (`WaitsOnlyAfterBurst`), every other round ends (`RoundEnds`), a signal ends the program unless the engine waits on a full outbox that nobody drains (`StopEnds`) | 54,996 |
| `publisher_stream` | one peer, ring of 2, 5 frames, resumes from 0, 1 and ahead of the head, and protocol errors: refinement of MdStream, bounded backlog | 386,588 |
| `md_client` | each client, ring of 2, up to 3 frames in a life of the server, 2 lost connections or needless timeouts, 2 restarts, starting live, from 2 or ahead of the head: the branch for a jump of the seq is dead (`NoSeqJump`), frames and lost add up (`AccountsAddUp`), each retained frame is delivered exactly once from where the account begins (`ExactlyOnce`), in the end the client is at the head for good, or is a `Stream` that a reset has ended (`InSync`) | 559,670 |
| `publisher_live` | two peers sharing the dirty flag: no wake-up is lost, a peer that reads catches up with the head, bytes never wait for ever, idle streams beat | 52,651 |
| `gateway_sessions` | two clients and a subscriber, reused descriptors: `TablesAgree`, and `ResponsesInOrder`: a session's client gets all the engine said to it, in order, and nothing else; `ClosedForCause`: a client that sends what it should is not hung up on | 1,882,506 |
| `gateway_frames` | one client, split and wrong frames: each frame is answered once (`EachFrameOnce`), nothing is left behind at the poller (`AtRest`), a client that reads gets its answer (`EveryFrameAnswered`) | 95,885 |

The largest take two to three minutes with two workers. A reject is compared with the abstract book by
session, order id and reason, which is what the engine's event carries besides the
client's tag; that it answers the very command that was wrong, rather than another one
of that session that would be wrong too, is not visible in it. The same
goes for who cancelled an order: the event names the owner.

Runs in which the code does not keep what a comment or document says (see
"findings" in `PROJECT.json`):

| run | what happens |
|---|---|
| `pipeline_burst` | a burst larger than both rings can take: `submit` waits for the engine, the engine for the gateway, for ever. Rings in the code's proportion (outbox = 4 x inbox) |
| `publisher_stall` | a peer that took bytes in `on_writable` is dropped as stalled: only `pump` resets the stall clock |

Others have no run of their own:

- A level's `qty`, and with it the published top, is the sum of its orders modulo
  2^32; `LevelsWellFormed` states it so.
- `publisher.hpp:20` says that a slow subscriber "is never buffered past max_backlog
  bytes"; the limit is tested before a frame is added, so the backlog may end up to a
  frame less one byte past it. `BacklogBounded` states the bound that holds.
- At the largest 32-bit seq `next_seq <= head()` (`publisher.cpp:33`) cannot fail: the
  copy loop goes past the newest frame and repeats old ones, where `protocol.hpp:10-11`
  says "gap-free". `ImplementsMdStream` fails as soon as `MaxPublish` reaches
  `SeqMod - 1` (`SeqMod` 4 in `PublisherStream.cfg` shows it); the runs stay below, as the
  code does for 2^32 - 2 frames.
- Shutdown: with the same full outbox, `run` may return while the engine is in `on_event`
  (`engine_thread.hpp:32`), which does not look at `stop_`; nobody drains the outbox any
  more, and `engine.stop()` joins for ever. It takes commands in flight that cause more
  events than the outbox holds. `StopEnds` names this state (`JoinHangs`) and the one of
  `pipeline_burst` (`Standstill`, in which `run` does not return although `server.hpp:40` says
  that it "blocks until stop is set") as the only ones a signal does not end.
- A client that loses its connection before it has handled a frame: `run_md`
  resumes from `last_seq + 1` = 1, whether it was started live or with `--from`, and gets
  older frames than it asked for. A `Stream` that was started live subscribes live again
  and passes over the frames published in between, uncounted, though `mdstream.py:6-7`
  says it "loses nothing the gateway still retains". `origin`, where the account of
  `AccountsAddUp` and `ExactlyOnce` begins, therefore moves with a subscription until
  something was heard; the last conjunct of `ExactlyOnce` (`origin <= first`) says that this
  is the only client whose account may begin later than its first subscription.
- After a restart of the server a client that is ahead of the new head gets a Gap with
  `from > resumed_at`, and counts a negative loss: `lost` shrinks, below zero in
  `mdstream.py` and around 2^64 in `run_md`; `AccountsAddUp` states what still holds.
  A client that is not ahead is given the new stream's frames under the old
  seqs and cannot tell. `ExactlyOnce` is therefore about one life of the server.
- `Stream.run` does not catch an exception of `recv` (`mdstream.py:69`): a connection that is
  reset, rather than closed, ends the program, where `run_md` reconnects. `InSync` names it.

### Bounds, and why they are enough

- Engine: 3 slots are the smallest pool with an order to unlink from the middle of a
  level, or a level of two and a taker that sweeps it; 3 prices give an emptied level
  above, at and below the best. `QtyMod` 4 lets two orders overflow a level; `GenMod` 3
  lets generations wrap past 0 while a stale id of each slot is around, `GenMod` 2
  takes generations out of the runs that are not about them. Refused inputs
  (an unknown symbol, a price above the maximum, quantity 0, a slot out of range,
  someone else's order) are in `engine_rejects`.
- Bitmap: words of 4 bits and prices to 9 give three words, the last with two prices.
- Ring: capacity 2 and 2 laps let full, empty and wrapped coincide; the proofs cover the rest.
- Pipeline: a round of 6 frames of 5 events each overfills an outbox of 16 with an inbox of 4,
  so that rounds that end, that stand still, and shutdowns that hang all happen; a
  trading order causes five events or more (Accepted, two Fills, Trade, Top). The proof covers the rest.
- Publisher: a ring of 1 or 2 and a backlog limit of 3 (a frame is 2) let a lap, a
  full backlog and a full socket coincide; `SeqMod` 16 is never reached with
  `MaxPublish` 5. `FromSeqs` has 20, a 64-bit `from_seq` that is no 32-bit seq.
- MdClient: 3 frames lap a ring of 2 between two connections; 2 drops let a
  connection end before, in and after the first frame of the one that follows a drop;
  2 restarts let a client meet a shorter and a longer new stream and carry a negative
  loss into a third. `MaxChan` 2 holds a Gap and a frame; `LostMod` 64 stands for 2^64, and
  is passed from below by the first negative loss. The proofs cover the rest.
- Gateway: two clients and a subscriber are enough for a descriptor of either kind to
  pass to the other kind within a batch, and for a response to come after its
  session's descriptor has a new owner; a socket and a backlog of one frame make
  partial flushes and the overrun happen with two or three frames; `ReadBuf` 2 lets a read
  that fills the buffer be followed by the end of the stream.

Symmetry is not used: runs are small, and it is unsound for the temporal ones.

### Fairness

- `SpscQueue`: both threads keep running (the OS schedules them), and a store becomes
  visible after finitely many loads: strong fairness on the load that returns the
  current value. Nobody must call `submit`.
- `Pipeline`: both threads keep running; the signal need not come.
- `Publisher`: the gateway loop comes round (`poller.wait` has a timeout, and
  `flush_all` is called every round), time passes, and a level-triggered poller reports
  readiness that persists. Peers need not read; `CatchUp` is about those that do and
  has that fairness as its premise. `Flushed` restates `FlushAll` by its effect on two variables,
  so that ENABLED is cheap to evaluate; no other action clears them.
- `MdClient` (`Runs`): the client's loop comes round (`select` has a timeout), a dead link
  stays silent until the heartbeat timeout is over, connecting succeeds in the end (both
  clients retry for ever), and the server accepts and serves, heartbeats included
  (`IdleStreamBeats` and `CatchUp` of `publisher_live`). Frames need not be published,
  connections need not fail, and live links need not be late.
- `Gateway`: both threads keep running. Clients need not send or read;
  `EveryFrameAnswered` is about those that read and has that fairness as its premise.
- `PriceBitmap`: a called function runs.

The engine has no liveness property: `process` is a call, and each `Fill` lowers the
taker's quantity.

## What is proved

Eight modules hold proofs, 13 theorems listed in `PROJECT.json`, all checked to the last leaf.

- **RingProofs**, first part (SpscQueue). For every capacity, number of laps and set of elements:
  `RaceFreedom` (`NoRace`) and `Refinement` (the ring implements BoundedFifo). Neither is
  inductive: both rest on `IInv`, which says that `cachedHead`, `head`, `cachedTail`, `tail`
  follow each other within one lap; that a producer past its test has room even
  against its stale view; that a consumer past its test has an element; and that
  what was copied is still in the slot. The lemmas are about unsigned differences of
  wrapping indices. Assumed: capacity at least 1, and at least 2 laps before an
  index wraps (2^64 over any capacity the code can allocate), the index width a
  multiple of the capacity (both are powers of two).
- **PriceBitmapProofs** (with **Extrema** on minima and maxima of finite integer
  sets). For every price range and word width: `ScanInvariant` and, from it,
  `ScanCorrect` (`ScanFindsNearest`). The invariant is the loops': the words hold
  the marked prices, `word` is what the current word offers, and nothing marked
  lies between the start and the current word.
- **RingProofs**, second part (Pipeline). `PipelineInvariant`: outbox + events still to be sent + `MaxEvents` x
  inbox never exceeds what a full inbox and one command in process can cause whenever
  the gateway polls or has left `run`, and within a round grows only by `MaxEvents` for each
  frame that was submitted. From it `BurstsOnly` (`WaitsOnlyAfterBurst`), for every ring
  size: `submit` and `on_event` wait for each other only when the frames submitted in
  this one round, with the command in process, cause more events than the outbox holds,
  and `stop` hangs only when the commands taken since the last drain do. Nothing is assumed but that the
  constants are naturals. With the default rings (2^16 and 2^18) and at most five events for
  a command it takes 52,428 frames in one round; an order that sweeps many makers causes more.
- **MdClientProofs** and **MdClientOnce**. For every ring size, any number of frames, lost connections,
  timeouts and restarts, and both clients: `JumpsNever` (`NoSeqJump`), `AccountsBalance`
  (`AccountsAddUp`) and `DeliveredOnce` (`ExactlyOnce`). All three rest on `JumpInv`: the
  frames on their way link up, each beginning where the one before ends (`Follows`,
  `After`), from the client's position (`Pos`) to the server's cursor; half a frame in
  `rx` is the first of them; and what the client will ask for is its position. From it each
  handled frame moves the position from `Follows` to `After`: a jump is impossible, and
  the change of `frames + lost` telescopes (modulo `LostMod`, with a lemma on sums taken
  modulo m). `OnceInv` adds, for one life of the server, that delivered seqs are
  behind the client and counted once, that what the client has passed was delivered or
  is older than the ring, and that every Gap on its way names frames that are gone, but
  for the one a client ahead of the head gets first of all; `OriginInv`, that the account of
  `run_md` never moves up and that of a `Stream` started with `--from` never moves. Assumed: the constants are
  naturals, the ring, `MaxChan` and `LostMod` at least 1.

- **PublisherProofs** (with **PublisherPump** and **PublisherPeers**). For any number of peers, any ring, limits, frame lengths, socket
  sizes and timeouts, and every interleaving of frames, requests, reads, hang-ups and
  ticks: `StreamRefinement` (`ImplementsMdStream`), `BacklogStaysBounded`
  (`BacklogBounded`) and `WakeupsKept` (`NoLostWakeup`). The invariant is `PInv`: the ring
  holds, in the slot of each retained seq, the frame of that seq (`RingInv`); each peer is
  as `PeerOK` says; and a queue that is not empty has write interest or the dirty flag.
  `PeerOK` is what the refinement needs and does not say: a subscriber's cursor lies in
  1 .. head + 1 (else a Gap would name the wrong frames or the copy loop would run past the
  head), one that has not subscribed has an empty queue, one that is not open has nothing,
  and the second piece of what a peer sends is a `from_seq`. The argument has three
  parts: what `pump` does to one subscriber (the Gap, the run of frames copied, the
  heartbeat, and the bytes each adds); that each handler keeps `PeerOK` and is a step of
  that peer's stream or none; and that each action does so for all peers at once. Assumed beside the
  constants' types: `NoSeqWrap`, fewer frames than a 32-bit seq can number (past that, the
  copy loop's test against the head no longer stops it where it should).

Only model-checked: liveness (the prover does neither fairness nor ENABLED), the
engine with its pool and books (`engine_book` and `engine_rejects`: its invariants, `OwnerView`
and the refinement of `OrderBook`), the publisher's `TypeOK`, the gateway's sessions, and
everything in the violation runs.

## What is not modelled, and the plan

Not modelled: byte layouts (static_asserts in `protocol.hpp`), system-call wrappers,
the drivers (`run_load`, `replay.py`, the benchmark), args, statistics and clock; kqueue
and epoll beyond "level-triggered"; of the clients the options that end the
program (`--seconds`, `--no-reconnect`), which only cut a behaviour short, and the
backoff, which only delays a connect. `next_sid_` (`server.cpp:99`) is 32 bits wide and
would repeat after 2^32 connections within the life of one session: the model gives each
connection an id of its own.

Next, in this order:

1. `EngineProofs`: the engine's invariants and the refinement of `OrderBook`.
2. `GatewayEngine`: `Gateway` composed with the abstract order book instead of an
   engine that may say anything (a fill reaches the session that owns the order).
3. `GatewayProofs`: `TablesAgree`, `ResponsesInOrder` and `EachFrameOnce`.
