# Verification of the limit order book and matching engine

This directory specifies the program in TLA+, model-checks small instances with TLC and
proves the central results for every instance with TLAPS. The reference is the source:
`src/` below is the repository (its own source directory is `src/src/`, its headers
`src/include/lob/`).

## 1. Inventory

| component | state | operations | what makes it correct |
|---|---|---|---|
| **Matching core** `matching_engine.cpp` | book, id index, slot pool, arrival counter, events of the call, last published top, halt flag | `process` -> `handle_new` / `handle_cancel` / `handle_modify` -> `match`; `emit_book_changed`; `set_halted` | price-time priority; index, slots and levels describe the same orders; never crossed; order-type promises (FOK, post-only, IOC); the loop ends |
| **Event contract** `events.hpp` | none of its own | the events a call returns | a listener can follow the book from the events alone |
| **Bitset book** `order_book.hpp`, `price_level.hpp` | per side: level array, occupancy words, summary words; per level: intrusive list, total, count | `add` `remove` `reduce_in_place` `best_*` `level_at` `marketable_qty` `snapshot` | words, summary and lists agree; best level is the best occupied one |
| **Baseline books** `map_order_book.hpp`, `sorted_vector_order_book.hpp`, `node_pool_allocator.hpp` | ordered map / sorted vector of levels | the same surface | observationally equal to the bitset book |
| **Order pool** `object_pool.hpp` | slab, free list, high-water mark | `acquire` `release` | no slot handed out twice |
| **Id index** `flat_hash_map.hpp` | power-of-two slot array | `insert` `find` `erase`, growth | a partial map, whatever the collisions |
| **SPSC ring** `spsc_ring.hpp` | buffer, head, tail, one cached index on each side | `try_push` `try_pop` `size_approx` | bounded FIFO between two threads |
| **Server pipeline** `engine_server.cpp` | connections, routes, three rings, counters, snapshot | gateway, engine, publisher, telemetry threads; `start` `stop` | bounded spins never wedge two stages; reports reach their client |
| **Market-data feed** `engine_server.cpp`, `apps/md_simulator` | stream sequence, subscriber's expectation | publish, heartbeat, receive | gaps are noticed |
| **Wire framing** `wire.cpp` | bytes of a connection | `peek_header`, decode | frames are cut where they were written |
| **Telemetry file** `telemetry.cpp` | the snapshot file | write, remove, rename | a reader sees a whole snapshot |
| **Latency histogram** `latency_histogram.hpp` | bucket counts, total, min, max | record, merge, percentile, bins | percentiles are the samples', to within a sub-bucket |
| **Order flow** `order_flow.cpp` | next id, live-order table, random state | `next` | no id issued twice or named after its cancel |
| **Sockets and poller** `net.cpp` | descriptors, interest list | accept, send, recv, wait | external: system calls as their callers see them |
| **Programs** `apps/` | loop state of a run | `engine_server`, `md_simulator`, `lob_bench` | what they report is what happened |
| **Clock, affinity, plotting** | none | platform calls, rendering | not modelled |

How they interact: the gateway thread decodes commands from client connections and pushes
them into the inbound ring; the engine thread pops one, runs `process()` to completion and
pushes its events into the exec ring (back to the gateway, which writes to the client named
by the route table) and the md ring (to the publisher thread, which multicasts); a telemetry
thread copies the snapshot the engine fills under a mutex and writes it to a file. Within
the engine everything is single-threaded and synchronous.

What is hard: in the core, sequences of commands (removals in the middle of a level, replays,
self-trade prevention while a level is walked, a pool at its limit); around it, the
interleavings of four threads over lock-free rings with cached indices, bounded spins that
give up, and state that survives `stop()`/`start()`. `PROJECT.json` lists the hazards line by
line with the properties that cover them.

## 2. Modules

| module | what it is |
|---|---|
| `LobTypes` | sides, the price band, `crosses`, which price is better |
| `PriceTimeBook` | abstract specification: a set of resting orders and one taker |
| `MatchingEngine` | `process()` and every handler, over queues of orders |
| `MCMatchingEngine` | command sets of its runs |
| `EventView`, `MCEventView` | a listener composed with the engine |
| `MatchingEngineProofs` | the inductive invariant of the engine and what follows from it; level totals; the refinement of `PriceTimeBook`; the listener's view and top of book |
| `PriceLevel` | the intrusive list of one price, and the walks over levels |
| `LevelQueues` | abstract specification: a FIFO queue per side and price, and what queries answer |
| `BitsetBook`, `MapBook`, `SortedVectorBook` | the three order books |
| `NodePool`, `ObjectPool` | the map's node allocator, the pool of order slots |
| `Books`, `MCBooks`, `BooksProofs` | the three books and the pool under the same calls; proofs about the queues of the bitset and the map book |
| `BookAnswersProofs` | proofs about the sorted-vector book and the answers of all three |
| `BoundedFifo` | abstract specification: a queue with room for a number of items |
| `SpscRing`, `SpscRingProofs` | `try_push` and `try_pop`, one step per access to shared memory; proofs |
| `PartialMap` | abstract specification: a map with insert, find, erase |
| `FlatPtrMap`, `MCFlatPtrMap`, `FlatPtrMapProofs` | the open-addressing table, one step per loop iteration; proofs |
| `Pipeline`, `PipelineProofs` | clients, gateway thread, engine thread and two rings through `start()` and `stop()`; proofs |
| `Dashboard`, `DashboardProofs` | the snapshot under its lock, the telemetry thread and the stats file; proofs |
| `OrderEntry` | one order-entry connection: order flow, framing, the gateway's buffers |
| `Feed` | md ring, publisher, lossy network, subscriber |
| `LatencyHistogram`, `LoadBench` | bucket arithmetic; the open-loop benchmark that fills a histogram |
| `Programs`, `MCPrograms`, `ProgramsProofs` | `OrderEntry`, `Feed` and `LoadBench` as the programs that run beside the server; proofs about the order flow, the order-entry stream, the feed and the benchmark's summary |

The layers fit by what each takes the one below for. `MatchingEngine` is written over queues per side
and price, which `Books` shows the bitset book to implement (`LevelQueues`); over a map from ids to
slots, which `FlatPtrMap` implements (`PartialMap`); `Pipeline` is written over bounded queues, which
`SpscRing` implements (`BoundedFifo`), and over an engine that answers each command with some
reports.

### The matching core (`MatchingEngine`)

One call of `process()` is a sequence of steps marked by `pc`: `idle` -> `dispatch` -> (`new`
-> `match` ->) `publish` -> `idle`. Splitting the call lets the invariants be checked inside
it, where the code relies on them, and gives the match loop one step per resting order. No
other thread touches this state, so the split adds no behaviour between calls; `SetHalted` is
only enabled between calls, as `set_halted` is called by the thread that owns the engine.

* `Receive` clears the events (l. 62-68); `RejectHalted`/`AdmitNew` are the `New` arm of the
  switch with its halt test; `RejectUnknown`, `HandleCancel`, `ModifyInPlace`, `ReplayAsNew`
  are the cancel and modify handlers. A modify to quantity 0 is handled as the cancel it becomes.
* `Rejection` is the ordered list of checks of `handle_new`; `RejectNew` reports the first that
  fails; `AcceptNew` builds `incoming` (the variable `in`) and emits `Accepted`.
* `StpCancelAggressor`, `StpCancelResting`, `Trade` are the three outcomes of one iteration of
  `match`; they take the head of the best opposite level. `Take` chooses between removal and
  `reduce_in_place`. The inner loop's `next` pointer is the next head, because every
  iteration that goes on has removed the head it looked at.
* `FullyFilled`, `CancelRemainder`, `PoolExhausted`, `RestIncoming` are the code after `match`;
  `RestOutsideLevels` is `book_.add` of an order priced `kNoPrice`, which indexes outside the
  level array. Nothing is said of the program after it (`pc = "oob"`).
* `PublishNothing`/`PublishTop` are `emit_book_changed`, then the return.

The book is `queue[side][price]` (ids, head first), `total` (the cached `total_qty`), `index`,
`order` (slot contents) and `inUse`, kept separately because the code keeps them separately and
what could go wrong is that they part. Quantities and prices are small integers; sizes never
reach 2^64 in a run, so the unsigned wrap shows as a negative total or remaining size, which
`TypeOK` and `LevelTotals` refuse. Left out: statistics counters, timestamps, the outbound event
sequence number, `EngineConfig::emit_book_changed = false`.

### The price-time book (`PriceTimeBook`)

A set of resting orders `[id, client, side, price, remaining, seq]` and at most one taker. The
taker trades with the crossed resting order that comes before all others of its side, as much
as both have; it rests or leaves only when nothing is left to meet (or nothing is left of it).
`Abstract` in `MatchingEngine` maps `index` and `order` to the resting set and handle_new's
`incoming` to the taker while `pc = "match"`.

### The listener (`EventView`)

`view[id]` adds up the events: `Accepted`, `Replaced`, `Canceled` say what they leave, a `Fill` is
counted by its matched size (so that a wrong size cannot be hidden by a right `leaves`). With the halt flag it also
tells what a halted book may still do: `HaltKeepsStrangersOut` says that no order opens that the listener did not
hold open before, which is all that is left of a halt when a modify is replayed past its test (section 6).

### The ring (`SpscRing`)

The producer's `try_push` is `StartPush` (full test against `tail_cache_`, l. 36-38), `ReloadTail`
(the acquire load and the second test, l. 39-40), `WriteSlot` (l. 42), `PublishHead` (the release
store, l. 43); the consumer's `try_pop` is `StartPop`, `ReloadHead`, `ReadSlot`, `FreeTail`. The two
interleave freely. A load of the other thread's index returns *any* value that index has held since
this thread last saw it (`Visible`): per-object coherence rules out older ones and nothing
guarantees the newest. Release/acquire ordering is what lets `buf` be one variable: a thread that
sees an index also sees the slot accesses before its store. `buf_` itself is not atomic, so a write and
a read of one slot at the same time would be a data race: `NoSlotRace`.

`Items` maps the state to the abstract queue: the slots from `tail` up to `head`. A push takes
effect at the store of `head_`, a pop at the store of `tail_`; every other step is a stutter.

### The id index (`FlatPtrMap`)

One step per iteration of the four loops of `flat_hash_map.hpp`: the probe loop that `insert`,
`find` and `erase` share (`ProbeOn` until `AtKey` or `AtEmpty`), `remove_at` (`PassOver`, `PullBack`,
`ClearHole`), `grow` (`SkipSlot`, `TakeSlot` and the inner insert's `Reinsert`). `op` and `arg` are the
call stack: `op = "reinsert"` is `insert` called by `grow`, whose load test never holds there
(`GrowInv`). The hash is an arbitrary function, so nothing depends on splitmix64; only remainders
are used. Locals are reset at return. `PartialMap` is what `MatchingEngine` takes the index for (its
variable `index`): `Entries` are the live slots, minus the hole while `remove_at` moves it, plus what
`grow` has not moved yet. Keys are non-zero, as the class requires; the engine passes client ids
unchecked, and id 0 is listed as a hazard.

### The books (`Books` and below)

A level is a record (`price`, `total`, `count`, `head`, `tail`), the `prev` and `next` pointers are a
function of the slots: `Pushed`/`PushLinks` are `push_back`, `UnlinkedFrom`/`UnlinkLinks` are `unlink`, branch
for branch. `BitsetBook` keeps `words` and `summary` as sets of one bits, `Bits` standing for 64;
`HighestSet`, `LowestSet` scan the summary and then one word without testing it, as the code does.
`MapBook` has a node per price, allocated from `NodePool`, whose free list is threaded through
the nodes and grows by blocks; `std::map` itself is a function from prices to nodes. `SortedVectorBook`
is a sequence kept in order by `Seek` (the `lower_bound`), where inserting or erasing a level moves those
behind it. `Books` is their caller: `Rest`, `Leave` and `Reduce` are what `matching_engine.cpp` does to its
book, with the slot acquired before and released after (`ObjectPool`, last released first out). Each call
is one step: no other thread sees a book.

### The pipeline (`Pipeline`)

One action per step of `run_gateway` and `run_engine` that another thread or a client can see the effect of. The
gateway's pass is `Poll` (the ready list), `Accept`, `Receive` (the recv loop of one
descriptor), `Decode` (one frame, which sets `c.client` and the route), `PushCommand`/`SpinForRoom`/`DropCommand` (l.
175-181), `Served` or `Close` (l. 187-192), `SendReport` (the exec loop), `Flush`. Descriptors are
given out lowest first, so that a closed one is used again at once. The engine's steps are `Process` (the
command's client gets a report, perhaps another client too), `PushReport`, `SpinForReport`,
`DropReport`. `Close` erases one route, that of the connection's last id, and none for id 0; the other routes
outlive the connection and name whoever gets its descriptor. `Send` picks any id for every command, as `run_flow`
does. `stop()` is `Stop` and, when both threads have returned, `Joined`; what is in the rings stays for the
next `Start`. `told` is history: what each connection said (`spoke`), and which ids had a connection in common
(`shared`). `Accept` may run in any pass a connection waits, where the code accepts
only when the listener was in the ready list.

### The stats file (`Dashboard`)

`publish_snapshot` is `LockToFill`, `FillCounters`, `FillLatency` (the unlock with the last write); the
telemetry thread is `Wake`, `LockToCopy`, `CopyCounters`, `CopyLatency`, `OpenTmp`, `WriteTmp`, `RemoveOld`,
`Rename`; `OpenFails` is the stream that does not open, `WriteCut` the write a full disk cuts short, which the code
does not notice. Of a snapshot one field of the first and one of the last assignments are kept, enough to
tell a torn copy. The dashboard reads `disk.file` in any state, so an invariant is what it can see. `Crash`
loses everything but the disk.

### The programs beside the server (`Programs`)

* `OrderEntry`: the generator's `live_` (`MakeNew`, `Cancel` with the swap-and-pop of `Untrack`, `Modify`), `Issue`
  (encode and one send, which may take a part), `Read` (recv, decode loop, erase), `Report`, `Flush`,
  `Pump`. A stream is a sequence of bytes, each knowing its frame and place in it; the sizes of a header
  and of the frames are constants. `PeekLength` is `peek_header` with its three ways to find nothing: part of a header, no
  header, part of a frame. Where no header starts (`Headed`), the bytes read as any of `Garbage`. `Round` is one
  iteration of the decode loop, `DecodeLoop` all of them: a round that finds no complete frame changes nothing,
  so as many rounds as the buffer has bytes are enough.
* `Feed`: `Offer` (try_push of the engine), `Publish`, `Heartbeat`, `Restart`, `Lose`, `Receive`; `Wrap` stands for 2^32.
* `LoadBench`: one step per order; `ResponseTime` is what is recorded. `LatencyHistogram` is the index
  arithmetic of the class, `Half`, `BucketCount` and `Highest` scaled down.

## 3. Runs

| run | bounds | shows |
|---|---|---|
| `engine_types` | 5 order types, market limits, size 0, out-of-band price, no modifies; 2 clients, CancelAggressor; halt set and cleared between calls; 3 arrivals | FOK, post-only; reaches the out-of-array step |
| `engine_limit` | 3 ids, 2 clients, 2 prices, 2 slots, CancelResting, modifies incl. size 0, out of band, "keep price"; 3 arrivals; no symmetry | index, slots, levels, totals, place in the queue, priority; every call returns; refinement |
| `event_view` | the same with modifies that stay in band; halt set and cleared between calls | the listener's view is the book; the top it was told is the top; a replay finds its slot; a halted book opens no order it did not hold |
| `ring` | 4 slots (3 usable), 2 items | no slot race; refinement of the bounded queue; a full ring drains, a retrying producer gets through |
| `index` | 4 keys in two chains, table of 4 slots made for 3 entries, growing to 8 | the table is a map; probe paths, count, load; only the last expected entry rehashes; every call returns |
| `books` | 3 slots, 5 prices in words of 2 bits, blocks of 2 nodes | three books, one behaviour; refinement of the queues; bitset levels; node pool |
| `pipeline` | 2 ids on any connection, 1 descriptor, 3 connects, 3 commands, rings of 1, spin limit 1, 2 starts | no command unaccounted for; the reports of an id that shared no connection go to its own; `stop()` returns |
| `dashboard` | 2 commands, 2 snapshots, 1 restart or crash; a full disk | the file is finished and of one snapshot; snapshots get there |
| `programs` | 4 commands, 2 reports, headers of 2 bytes, frames of 3 and 4, buffers of 5; 7 datagrams, wrap at 4, 2 restarts; 5 orders, values past the last bucket | framing, order flow, gap count, percentiles, mean and extremes |
| `fok_stp`, `view_replay`, `routes` (2 descriptors) | | disagreements with the documentation, section 6 |

Two prices and two sizes give every relation the engine distinguishes (better, equal, worse;
smaller, equal, larger); three ids make a level with a middle; a pool smaller than the number of
ids makes exhaustion happen. `MaxArrivals` is the only bound on an unbounded counter there: `Receive`
offers no command that would need another arrival. Ids are interchangeable, and the runs without
liveness use them as a symmetry set. `CHECK_DEADLOCK FALSE` appears where the model stops: after
the out-of-array step (`engine_types`), when the bounded number of starts, snapshots or messages is used
up (`pipeline`, `routes`, `dashboard`, `programs`).

The ring needs no bound: indices wrap. Four slots let the ring be empty, full, partly full and
wrapped, and let a cached index be one, two or three steps old. The index run has two chains, one of which
wraps around, long enough for an entry to be passed over and another to be pulled over it; the table grows
once. Five prices in words of two bits give the book three words, two summary groups, a word with two
levels and an empty word between occupied ones. The pipeline's rings of one item are full at once, which is
what the 128k entries of the code take a stall to reach. In `pipeline` one descriptor is
enough for it to be given out again, twice, which is what a stale route needs to meet a stranger, and three commands let the engine hold
a report, the inbound ring a command and the gateway another. `routes` has two descriptors, so that one connection closes while another
stays open; that the reports of an id on its own connection hold there too, for any number of ids, descriptors and
connects, is theorem `SoleIdDelivers`. In `programs` a header of
two bytes and frames longer than it let a read or a flush end inside a header, between header and body and inside a
body. A wrap at 4
lets the feed wrap before and after a loss and before and after a restart. The histogram of `programs` has
buckets of one, two and four values and is offered values it has no bucket for.

Fairness. Engine and index: `WF_vars(Step)` over the steps of a call under way; `process()` has no blocking call and
no lock, so the thread in it keeps taking steps. Nothing is assumed of when commands arrive.
Ring: two threads that keep calling, as `run_engine` and
`run_publisher` (loops around `try_pop`) and the bounded spins around `try_push` do: weak fairness
of each thread's steps. `SF_vars(FreshTail)`/`SF_vars(FreshHead)` say that a thread that keeps
loading an index does not read an old value for ever; C++ asks this of an implementation
([atomics.order]: stores become visible in a finite time) and all hardware provides it.
Pipeline: weak fairness of each thread, which busy-polls and never blocks; nothing of clients. Dashboard: weak
fairness of the telemetry thread and of the engine while it publishes; strong fairness of taking the lock (it
is free between any two snapshots, and the engine holds it for a bounded time) of opening the temporary file and of writing all of it (a
disk that refuses, or is full, for ever is not the program's doing).

## 4. Proofs

`MatchingEngineProofs` proves, for every price band, command set, pool size and STP mode, that

    Inv == TypeOK /\ BookInv /\ IncomingIsNew /\ PostOnlyNeverTakes
    BookInv == IndexMatchesBook, SlotsAccounted, TimePriority, BookUncrossed, RestingIsOpen

is inductive. `IndexMatchesBook` alone is not: removing an id from its level only keeps it if the
id is queued once, which follows from `TimePriority` (`QueuedOnce`: arrival numbers along a level
strictly increase). `TimePriority` needs the incoming order to be younger than all that rest,
`BookUncrossed` needs that the loop of `match` ended because nothing was crossed
(`NothingLeftToCross`, from the existence of a best level, `BestExists`), `SlotsAccounted` needs
that an accepted id is not indexed: the parts of `IncomingIsNew`. `PostOnlyNeverTakes` is inductive
only together with the invariant that the book does not move between the check and the loop.

* Lemmas about the book operations: `ReleaseBook`, `ResizeBook`, `RestBook`.
* One lemma per action, combined in `NextInv`; `Invariance` and its corollaries.
* `HeadHasPriority`: the head of the best level comes before every other order of its side.
  `PriorityOfMatch` (action property) follows.
* `MatchTerminates`: quantity left plus slots in use decreases in every step within `match`.
* `Implementation`: `Spec => Abstract!Spec`, one lemma per abstract action.
* `PlacesAreKept` (action property): what a step leaves queued it leaves in order, with its price, and no larger.
* `TotalsTrue`: `LevelTotals`. A sum over a set is the value of a function defined by recursion on subsets;
  `SumOver` and its lemmas (`SumAdd`, `SumRemove`, `SumChange`, ...) give what the steps need, by a
  least-cardinality argument in place of induction. Every path that queues, shrinks or removes an order is a lemma
  about the total of one level.
* `FokIsAllOrNothing`, under `FokMeetsNoOwnOrder` (STP off, or no client that sends fill-or-kill orders has orders that could
  rest; run `fok_stp` shows the promise fail without it). `FokInv`: while the loop runs, what the order still needs is at most the
  `marketable_qty` of the book as it is now, and what it does not need any more has been filled. It rests on
  `TotalsTrue`: the sizing walk reads the cached totals.

* The listener (`EventView`): `TopPricesAreKnown` (`TopInv`: the listener's prices are `last_bid_`/`last_ask_`, and these are the book's between
  calls). `ReplaysFindSlots` (`ReplayInv`: a replay runs with a slot free, because the modify freed it).
  `EventsTellTheBook` (`ViewInv`: at every step inside a call too, the listener's size of an order is the book's, or `incoming`'s
  while it is matched, but for the order a replay is about to accept again), under `ReplaysFit`: modifies ask for a
  price in the band, and only for the price they have where post-only orders are sent. Run `view_replay` shows what
  happens without that assumption. `HaltedBookIsClosed`, for every command set: `HaltKeepsStrangersOut` (`HaltInv`: what the listener holds open is
  what rests and what is being matched, and a call that reached `handle_new` in a halted book is about an id it held open, because
  only a replay gets there). No assumption on the modifies is needed, as a view that is too large lets in nothing.

* `BooksProofs`, for every set of slots, band, word width and block size. `ListInv`: the free stack holds a slot
  at most once (`SlotsInv`); levels and links spell a queue of distinct orders at each side and price (`IsList`), no
  two queues share an order (`Holds`), and an order is in the queue of its side and price exactly when its slot is not free
  (`Placed`). The parts need each other: `unlink` is right only for an order that is in the list of the level it names,
  `push_back` only for one in no list, and both only because a free slot is in none. `PushedList`,
  `UnlinkedList`, `PushElsewhere` and `UnlinkElsewhere` say what the two do to one list and to the others.
    * `QueuesImplemented`: `Spec => Queues!Spec`, the refinement `MatchingEngine` relies on.
    * `BitsAlwaysAgree`: `BitsInv` adds, per word and summary word, that a bit is one exactly for an occupied level; the
      lemmas on quotients and remainders (`GroupOf`, ...) say that two levels share a word and a bit only if they are equal.
    * `NodesAlwaysAccounted`: `MapInv` says that the tree is an injection from prices to nodes, that it has a price exactly
      when the price queues an order, that its levels spell the *bitset book's* queues, and `PoolInv` that the
      free list spells distinct nodes which, with those in use, are the nodes of the blocks taken. `allocate` finds a node in the modelled
      address space because there are fewer nodes in use than prices while one is missing (`RoomForOne`).
    * `MapQueuesAgree`: the two books queue the same orders in the same order.

* `BookAnswersProofs`, under the same assumptions, from the invariants above to the answers of the queries.
    * `LevelsSized`: a level's `total_qty` is the sum along its queue. The sum is the last value of a function that runs
      up along the queue (`RunsUp`); there is one such function, and `SumsAppend`, `SumsRemove`, `SumsReduce` say what
      `push_back`, `unlink` and `reduce_in_place` make of it.
    * `VectorHolds` (`VecInv`) and `VectorQueuesAgree`: each side of the vector is in strict order of price (`IsRow`), so
      the place `Seek` finds is the only one a price can have (`SeekIs`), and inserting or erasing there, which moves
      every level behind it, leaves every other price the level it had (`RowsAlike`).
    * `CountsHold`: a side's `order_count_` is the number of its orders.
    * `AnswersAgree`: `SameAnswers`. There is one enumeration of a set of prices, best first
      (`BestFirstIs`); the map's order, the vector read from its back, and the walk over the bits each are it.
      For the bits this is `HighestSet` and `LowestSet` finding the best occupied level, and
      `next_level_toward_mid` the next, given that the summary says which words are empty. The three books then hand equal
      levels to the same walks.

* `DashboardProofs`: `FileIsFinished`. `FileInv` relates the program counters of the two threads to `snap_mu` (`LockDiscipline`), what the
  telemetry thread has copied to what is in the snapshot while it holds the lock, and afterwards to what was published (`CopyInv`).

* `ProgramsProofs`: `GeneratorForgets` (`FlowInv`: `live_` has no id twice, and none that was canceled, so the
  swap-and-pop of the place of an id removes it). `NoFalseAlarm` and `NoLossMissed` (`FeedInv`): every datagram is heard, lost or on its way in order
  (`EveryDatagram`), and the subscriber's `gaps` lies between the losses it must notice and all losses between
  the first and the last datagram it heard (`Counted`). `Ahead` bounds the distance of two stream sequence numbers modulo
  the wrap by the datagrams between them, with equality when the publisher's count ran on.
    * `FramesReadBack`: `FramesArriveWhole` for both directions of an order-entry connection, whatever the sizes of headers and
      frames, cut at any byte. `StreamInv` says that what
      is in the reader's buffer, in the socket and in the writer's buffer, taken together, spells the frames not decoded
      yet, each complete and in order, and that only after a short send does anything stand behind them (`Carries`,
      `Reads`). A recv moves the border between socket and buffer, which the invariant does not mention.
      `LoopRuns` is the loop: as long as the buffer holds a whole frame a round takes exactly that one, and behind the
      last the bytes may read as any length, which the invariant allows only after the short send.
    * `SummaryIsOpenLoop`: `SummaryTrue`. `LoadInv` carries a backlog that satisfies the recursion of `Backlog` (what an
      order finds is what its predecessor found and brought, less the gap, or nothing) and says that the clock is
      ahead of the schedule by the last of it (`OnTime`); so what `measure_load` records is the
      backlog and the service time, and `record` sums exactly those up. `BacklogIs` shows that there is one such backlog.

* `SpscRingProofs`: `Inv == TypeOK /\ CachesLag /\ SlotsHold`. `CachesLag` says that a cached index is
  never ahead of the index it copies nor behind the thread's own, in circular order, so a test
  against it can only err towards "full" or "empty"; `SlotsHold` says every slot between `tail`
  and `head` holds an item. `SlotsNotShared` and `Implementation` follow; the arithmetic of
  circular indices is in lemmas (`ForwardSucc`, `DistanceGrows`, ...).

* `FlatPtrMapProofs`: `Inv` is `TypeOK`, `SizeCounts`, `PathsUnbroken` and what each loop knows:
  `ProbeInv` (only other keys were seen), `ShiftInv` (the table is full from the hole to the scan
  position, and what was passed over is not reached through the hole), `GrowInv` (an old slot gave at
  most one entry), `KeysUnique`. The heart is `ClearHoleStep`: an entry whose probe path crosses the
  hole would also cross the empty slot the scan ended at (`DistanceBetween`). `SizedUpFront`: the constructor's
  loop and `insert`'s load test disagree at exactly three quarters only, so only the last entry of a table made for that many rehashes.

* `PipelineProofs`: `PipelineTypes`, then two invariants. `PipelineAccounts` (`CountInv`): a restart must not
  find a command in the gateway's hands, which `StoppedIsDone` says. `SoleIdDelivers` (`RouteInv`),
  for every set of ids, 0 included, and without a hypothesis: a report goes astray only if its id is 0 or has shared a connection. It needs
  that the route of every other id leads to an open connection that spoke for it and is known by it (`RoutesLive`), that what
  waits on a connection was said on it (`SaidHere`), and that a peer the gateway found gone has nothing
  left to receive (`ServedIsOpen`). The heart is `RoutedClose`: a connection known by an id that shared none has
  one route leading to it that matters, and `Close` erases that one.

Assumed: `KeyAssumption`, `ValueAssumption`, `SizeAssumption` for the index; `CapacityAssumption` and `ItemAssumption` for the ring; `PipelineAssumption` (ids and
descriptors are naturals, the descriptors finitely many); for the engine `PriceAssumption` (the band is an interval above `kNoPrice`), `CommandAssumption`,
`LimitAssumption`, `TakerAssumption` (the value that stands for "no command" is no order); TLC
evaluates them in every run.

For the books `StorageAssumption` (the slots have an address each: `Storage` lists every one once; words of at least two
bits; sizes are positive), `SlotAssumption` (null is no slot); for the dashboard and the programs `DashboardAssumption` and `ProgramsAssumption`. Two theorems have a
hypothesis on the constants, named above, for which a run shows that it is needed (`fok_stp`, `view_replay`).

Induction over data is not available to the prover. Where a proof needs one it takes a least counterexample from
`NatLessThanWellFounded` (`LeastNat`), and for a recursive function (`Chain`, `FreeNodes`, the sums) gives the function it must be and
shows that it solves the recursion.

Only model-checked:

* `ResponseTimesTrue`: percentiles, bins, chart and merge. The buckets are powers of two, for which the provers have
  no arithmetic (`^` is uninterpreted, its laws would need an induction over the exponent), and the counts are added up with folds,
  whose recursion over an operator parameter they cannot see. What the same histogram keeps beside its counts is `SummaryTrue`, which is proved.
* The liveness properties (`CallReturns` of engine and index, `Drains`, `PushGetsThrough`, `StopReturns`,
  `PublishedReachesFile`): out of the prover's reach. `MatchTerminates` is the safety half of the first.

## 5. Not modelled, and the plan

* Order id 0 (the index's empty marker) through the engine.
* Statistics, timestamps, formatting: JSON, CSV, printed summaries, the trade tape, the derived rates,
  the field layout of frames.
* Platform code: `epoll`/`WSAPoll`, socket options, pinning, clocks; the system calls are modelled as their
  callers see them. A listener that cannot be opened (the gateway returns and counts one inbound drop).
* `lob_bench` modes other than `load` (timing loops around library calls), the command lines, the
  plotting tools.
* Reordered datagrams.

The proofs planned are done: every safety invariant, action property and refinement the passing runs check is a theorem but for
`ResponseTimesTrue`, for the reason above.

## 6. Disagreements and observations

Shown by a run:

* `fok_stp`: with self-trade prevention a fill-or-kill order may fill in part
  (`matching_engine.cpp:220` sizes it from level totals that include the client's own orders;
  `types.hpp:44` says "fill in full immediately or reject").
* `view_replay`: a modify whose replay is rejected removes the order without a `Canceled` event.
* `routes`: the gateway forgets one route per closed connection, that of its last command, and none for client
  id 0. `run_flow` sends ids 0 to 3 over one connection; after it closes, the other routes name its descriptor, and
  reports for resting orders of those clients go to whoever gets the descriptor next (`engine_server.cpp:188`). What is
  left is `SoleIdKeepsItsReports`.

Met while modelling:

* A Limit or PostOnly order priced `kNoPrice` passes the band check as a market order would, and what is left of it rests at
  `kNoPrice`, outside the level array (`matching_engine.cpp:197`; `events.hpp:19` says "kNoPrice == market"). Run
  `engine_types` ends there.
* A modify of a halted book is replayed through `handle_new`, past the halt test of `process()`, and may trade
  (`matching_engine.cpp:354`; `docs/adr/0005` calls the replay a fresh `New`, the test `HaltRejectsNewButAllowsCancel` rejects
  those). What is left of a halt is `HaltKeepsStrangersOut`: the
  order that trades was in the book before.
* `FlatPtrMap`'s constructor stops doubling at a load of exactly 0.75, where `insert` grows: a table made for
  3*2^k entries rehashes at the last of them (`flat_hash_map.hpp:27` against lines 14 and 21). Run `index` has such a table,
  and `RehashesAtBoundaryOnly` says that this is the one exception.
* `write_json_file` asks the stream whether it opened, not whether the text got through: on a full disk the part
  that was written is renamed over the stats file (`telemetry.cpp:196`; line 191 says "so a dashboard poll never
  sees a half-written file"). What is left is `FinishedFile`.
* `counters.clients` keeps counting connections that `stop()` closed; `md_seq_gaps` is never written.
* `docs/adr/0010` speaks of "a mutex the hot loop never takes"; the engine thread takes it for every snapshot
  (`engine_server.cpp:301`).
* `wire.hpp:50` says the client's send time is echoed for the round trip; the gateway's receive time is
  (`engine_server.cpp:286`). `run_flow` records another round trip when a modify replays and Accepted comes again.
* `run_flow` never sends the rest of a short send, and goes on with the next frame: the stream stays out of step
  (`md_simulator/main.cpp:137`). Orders whose frame was not sent at all stay in the generator's `live_`.
* The stats file is missing between `remove` and `rename`, and after a rename that fails.
* Histograms count a value past the last bucket in it, so percentiles stop there (67.1 ms for the engine's)
  while `max` does not; `docs/adr/0007` says latency is never under-reported.
* The subscriber counts a datagram that arrives out of order as a gap and does not take it back.
