# Low-latency pipeline: a TLA+ verification project

TLA+ models of the trading pipeline in `src/`, the TLC configurations that check
them on small instances, and TLAPS proofs of nearly every safety property.
`PROJECT.json` lists components, runs, mutants, the source lines behind every
definition, findings, hazards and theorems.

    cd tla
    tlc -config MCManager.cfg MCManager     # one run
    tlapm ManagerProofs.tla                 # one proof module

## 1. The system

A replayed ITCH feed goes through three processes pinned to cores of their own,
supervised by a fourth and watched by a fifth. They share one memfd segment that
holds rings, seqlocks and a control block.

    exchange_main --ring--> core_main --ring--> exec_main --router--> venue
                               |  seqlock/ring      | seqlocks
                               +----> dashboard <---+
    manager: fork/execv, SIGTERM, waitpid, Control.flags      dashboard: Control.flags, swap_path

| Component | State | Operations | What makes it correct |
|---|---|---|---|
| SPSC ring (`common/spsc_ring.hpp`) | `head`, `tail` (32 bit), slots | `try_claim`, `publish`, `try_push`, `try_pop`, `size` | elements arrive whole, once, in order; a slot is never filled while it is copied; counters wrap |
| Seqlock (`common/seqlock.hpp`) | `seq`, `data` | `store`, `try_load` | an accepted load is the last complete store |
| Order map (`core/core.cpp`) | open-addressed slots | `find`, `insert`, `erase` | finds exactly the live orders |
| Occupancy bitmap (`core/level_bitmap.hpp`) | bits and summary tiers | `set`, `clear`, `next_set`, `prev_set` | summaries exact, searches find the nearest |
| Order book (`core/core.cpp`, `primary_feed.hpp`) | order map, level totals, bitmap, cached best, base price | `on_add`, `on_execute`, `on_cancel`, `on_delete`, `on_replace`, trade-only events, `top_bids`/`top_asks` | the four shapes agree, and agree with the exchange |
| Feed path (`exchange_main`, `core_main`, `runner.hpp`, `market_view.hpp`) | the two rings, `pending_reset`, drop counters, sequence numbers | parse, process, drain, handle a frame, stop | nothing is missed silently; everything stops |
| Exec order path (`strategy.hpp`, `risk.hpp`, `router.hpp`, `exec_context.hpp`, `runner.hpp`, `exec_main.cpp`) | rows, open lots, reservations, balances, cached flags, report queue | submit, replace, cancel, cancel_all, apply_report, the hot loop, the shutdown sequence | figures match the table, the table matches the venue, limits hold, KILL and shutdown work |
| Order table (`order_table.hpp`) | dense rows and index | insert, erase, find | the index finds every row, and only those |
| Account (`account.hpp`) | position, cost, realized PnL, fees, balances, peak | on_fill, mark, equity | money is conserved through rounding |
| Exec identity (`exec_context.hpp` setup/publish) | generation, counter, `exec_stats` | setup, next_id, publish | identifiers are never reused |
| Manager (`manager.cpp`) | workers, request flags, `exec_restart_pending`, exit code, `Control` | spawn, reap, restart, swap, KILL, shutdown | after a death nobody trades unasked; shutdown ends |
| Rate model (`rate_model.hpp`) | counter, time of the last charge | `would_allow`, `charge` at submit, amend, cancel | never behind the venue's counter by more than the margin |
| Parser and frame builder (`itch_parser.cpp`, `primary_feed.hpp`, `market_update_builder.hpp`) | reused ring slots, reused snapshot | parse, apply, build, handle | nothing an earlier message left is read |
| Snapshots and dashboard (`book_snapshotter.hpp`, `core_main.cpp`, `dashboard_main.cpp`, `trading_panels.cpp`) | `book_seq`, a thread, a ring, what is on the screen, the previous sample | store, load with retries, publish or drop, drain, sample, join | whole frames in order, up to date when the feed pauses; rates do not wrap; core can exit |
| Instrument table (`ipc/instrument.hpp`, `exec_context.hpp` setup) | rows, `count` | `add`, the wait for a row | only whole rows are registered; the wait ends |
| Module loader (`loader.cpp`) | descriptors, mapping, linker state | open, map, check, copy, dlopen, check the table | what runs is what was checked; failures leak nothing |
| Configuration (`config_file.hpp`) | table of fixed size | load, find, getters | a config that loads is its file |
| Histograms (`histogram.hpp`) | buckets, count, maximum | record, percentile, difference of two | a percentile brackets the sample of its rank |
| Statistics log, platform helpers, drawing | | | not modelled, see section 8 |

The hard behaviour: two processes on one slot or one frame without locks; a
process that dies at any instruction and is spawned again over the same shared
memory; signals that arrive before anyone can handle them; three loops that
drain into each other while they stop; reports that cross requests; redundant
incremental bookkeeping (the book's four shapes, open lots, reservations,
swap-removed rows, summary bits) that must not drift; buffers that are reused
without being cleared; two counters of one quantity, kept by exec and by the
venue on clocks of their own.

## 2. Modules and how they correspond to the code

First the two lock-free primitives every process uses, then the book, exec's
order path, the processes together, the screen, and last the parts that the
larger modules take for granted.

* `SpscRing` (abstract: `BoundedFifo`). One action per atomic access or word
  copy. `ClaimLoadTail`, `ClaimFull`/`ClaimSlot`, `StoreWord`, `Publish` are
  the producer's calls, `PopLoadHead`, `PopEmpty`/`PopFound`, `CopyWord`,
  `Release` the consumer's. `Abandon` covers the parser's unused claim and a dead
  producer; `ConsumerCrash` a dead exec. `SpscRingObserver` adds `size()` by a
  third party. `BoundedFifo` says what the pipeline's other modules assume.
* `Seqlock` (abstract: `AtomicCell`). `StoreBegin`, `StoreWord`, `StoreEnd`
  against `LoadBegin`, `LoadWord`, `LoadEnd` of any number of readers.
* `OrderBook`. One action per handler behind `PrimaryFeed::apply`; the body of
  a handler is a composition of steps on a record of the four shapes, in the
  order of the code. `exchange` is a history variable, the feed's truth.
* `ExecOrders`. One action per request (`Submit`, `SubmitRingFull`, `Replace`,
  `Cancel`), per report (`PollReport` with `ApplyReport`) and per stage of the
  hot loop and of main's shutdown. `Callbacks` says which of `on_start`,
  `on_exec`, `on_timer` and `on_stop` the strategy has; like `on_tick`, each may
  make any requests. A market order is checked and reserved at a mid of `Mids`, 0
  standing for a one-sided book. `Live` chooses between NullRouter and an
  external venue behind two rings (the code has only NullRouter so far; the
  message protocol of `order_msgs.hpp` and the handling of every report type are
  in place, and this is what they would meet).
* `ExecRestart` composes `Seqlock` (the `exec_stats` block) with the lives of
  successive exec processes and their identifiers, and with core's entry in the
  instrument table, which `setup()` waits for. exec comes up in the same stages as a
  worker of `Manager` (forked, past execv, past `sigaction`). `TradingPanels` puts the dashboard
  beside it, as a reader of that seqlock that samples rates from its counters.
* `Pipeline` composes the exchange, core and exec over two bounded queues, with
  the manager's broadcast, which an exec that is coming up can miss or die of; the
  exchange and core, which are spawned once, start with their handlers. MarketView keeps its sequence, its gap count, and
  whether a mid of before a gap could meet one of after it.
* `Manager`. One action per branch of the supervision loop; a worker's `life`
  says what a signal would do to it.
* `DashboardFeed`. Core's stores, the snapshotter thread with its limited tries,
  the publisher that drops on a full ring, and the UI loop with its two refresh
  rates, up to the join at core's exit.
* `RateModel`. The lazily decaying counter next to the venue's, on a wall clock
  with requests in transit or on an event clock that may step back.
* `EventSlots`. Which fields the parser writes for each message type and which
  ones each later stage reads, over slots that are reused.
* `Loader`, `ConfigFile`, `Histogram`: `load_strategy` call by call, with the
  kernel's and the linker's rules and a build that rewrites the file; the
  table behind the config file; the percentile algorithm against its definition.
* `LevelBitmap`, `OrderMap`, `OrderTable`, `Account`: the structures `OrderBook`
  and `ExecOrders` take for a set, a partial function, a sequence of rows and
  plain sums. Hashes are arbitrary functions chosen in the initial state.
  `Probing` is the arithmetic of linear probing that the two tables share,
  `HashTables` the two side by side.
* `MC*` modules only add a symmetry set where one is used, an assumption that the
  instance has to satisfy, or nothing; every constant is given in the `.cfg`.
  `MCStructures` puts the parts that do not interact side by side, one per
  behaviour. `*Proofs` hold the theorems (`SeqlockProofs` also those of
  `ExecRestart` and `TradingPanels`, `StructuresProofs` those of the smaller parts),
  `FoldTheorems` what they share.

Operators named as a mutant in a comment are not part of the model: each is a
plausible bug in the definition below it, kept to show that a property of the
runs notices it (`PROJECT.json`, "mutants").

**Memory model.** Interleavings are sequentially consistent. For the ring,
every slot access is ordered by a release store paired with an acquire load; for
the seqlock, by its two fences; so the orders the code relies on are the
interleavings modelled. The reordering a missing fence would allow is what
`StoreEndEarly` and `PublishEarly` stand for.

## 3. Runs that pass

| Run | Checks | Shows |
|---|---|---|
| `ring` | TypeOK, NoSlotRace, RefinesFifo, Delivers | across wraps, crashes and given-up claims the ring is a bounded FIFO and a polling consumer gets every element |
| `seqlock` | RefinesCell, EventuallyVisible | no torn or outdated frame is accepted; readers end up current |
| `orderbook` | LevelsMatchOrders, TopOfBook, WalkIsSortedBook, BookTracksExchange | with tick prices, in and out of the window, map, totals, bits, best and walk agree, and the book is the exchange's while nothing was dropped |
| `exec_null` | NothingResting, KillHonoured, CancelCompletes, ShutdownCompletes | over NullRouter, with requests from every callback, and flags and SIGTERM at any time |
| `exec_live` | BooksBalance, AgreesWithVenue, WithinPositionLimit, NeverOverReserved | fills, also away from the price reserved, race amends and cancels, and rejects clear both pending bits: nothing drifts, and worst-case position and funds stay within limits as long as nothing meets an amend in flight, but for what market buys cost beyond their reservation |
| `exec_restart` | IdsDistinctUnlessOrphaned, RegistersWholeRows, RatesNeverWrap, SetupSettles | over restarts, failed starts, crashes and a core that may die: identifiers are distinct as long as an exec that dies has its generation in `exec_stats`; exec registers whole rows only and waits for ever only if the broadcast met it before execv; the dashboard's rates do not wrap unless an exec died inside a store |
| `pipeline` | ResetMarksGap, GapsAccounted, MaxEventsRunComplete, EverythingStops | FEED_RESET marks exactly the gaps; gaps are counted and never folded into the volatility; a run ends with every worker, but for an exec that the broadcast met before execv; an exec that ends by itself leaves nothing that a max_events run published |
| `manager` | KillAfterUnaskedDeath, RequestsSettle, SwapHonoured | with and without automatic restart: KILL outlives every restart and swap until the operator clears it; restarts and shutdowns complete unless a SIGTERM met a child before execv; a swap gets its strategy unless another restart took the path |
| `dashboard` | ShownInOrder, SnapshotsFlow | what is shown is whole and in the feed's order; whatever was refused or dropped, both panels catch up when the feed pauses; core can always join the snapshotter |
| `structures` | TablesFindTheLive, BitmapFindsLevels, AccountExact, RateHeadroom, PercentileBrackets, NoStaleField, LoaderSound, ConfigIsTheFile, SizeOverReports | each part by itself, over every short sequence of its operations: hash tables under every hash, every reachable bitmap, positions opened, cut, closed and flipped, the rate counter against the venue's, percentiles against ranks, reused slots, loads with every failure, config files, and a third party's `size()`, which may exceed the capacity but never wraps |

## 4. Where the code and its comments part

Two runs end in a violation; their quotations are in `PROJECT.json`, "findings".

| Run | What happens |
|---|---|
| `exec_restart_crash` (IdsNeverRepeat) | exec dies before its first publish (or inside one): the next exec has the same generation and repeats identifiers |
| `orderbook_subpenny_top` (BestIsOccupied) | two sub-penny prices share a level; the better leaves, then the other: the level empties but the cached best stays |

The other promises of the comments that hold only under a condition. Where a
model carries the condition as a history variable, the passing property says so:

* An amend in flight counts neither for `position_check` nor for the funds test
  until its `Replaced` (`risk.hpp:236` "Worst case if every open order on the
  order's side filled"): an amend and a new order can pass the limit together,
  and a fill that meets a price-lowering amend can leave more reserved than owned
  (`raced` in `ExecOrders`).
* A SIGTERM to a child between fork and execv is lost and not repeated; the
  shutdown, or the SIGUSR1 restart, then waits for ever (`"signal"` of `mishaps` in
  `Manager`; `README.md:121` "reaches every worker at once"). Such an exec spins in
  `setup()` if core has ended without a row (`lost` in `ExecRestart`), else on a ring
  that nobody fills any more (`MissedSigterm` in `Pipeline`). An exec past execv but
  not yet past `sigaction` is killed: what core published stays in the ring, so
  that MaxEventsRunComplete is about an exec that ended by itself.
* A SIGUSR1 or automatic restart takes `swap_path` and leaves SWAP set, so that
  the swap which follows loads the config's strategy (`"path"` of `mishaps`).
* A crash while a SIGUSR1 restart is pending counts as the restart and sets no
  KILL (`manager.cpp:11` "exec dies unexpectedly: set KILL"); `unclearedDeath`
  is about deaths nobody had asked for.
* `cancel_all` ignores a full router. A live order has up to four answers queued
  when SWAP or SIGTERM stops exec between two polls: Ack, Expired (of an IOC),
  Replaced and the Canceled that `cancel_all` asks for. `NullRouter::QUEUE` is 1024,
  so that with up to 256 live orders nothing is left resting (`NothingLeft`), and
  with 257, possible with `max_open_orders` off or above 256, some may be
  (`exec_main.cpp:126` "Leave nothing resting"). `itch-null.cfg` allows 100.
* `NullRouter::poll` empties a queue that requests from `on_exec` refill: a
  strategy that amends an order in every `on_exec` keeps it from returning, and
  neither KILL nor SIGTERM is seen any more. ShutdownCompletes excepts exactly a
  strategy that makes requests from `on_exec` infinitely often.
* `on_start` runs before the control flags are first loaded, so that its requests
  pass under a KILL set earlier (`module_abi.hpp:136`); no strategy of the
  repository has an `on_start`. KillHonoured speaks of frames.
* A market order is checked and reserved at the mid, and at 0 while the book is
  one-sided: what it then costs may exceed what is available (`slip` in
  `ExecOrders`, by which NeverOverReserved is corrected).
* A module with thread-local storage gets past `check_elf` if a build rewrites
  the file between the check and the copy (`touched` in `Loader`).
* An exec that dies inside a store leaves `seq` odd for good; its successor's
  stores are then even while they are in progress, so that the dashboard accepts
  frames that are not whole and the generation may repeat (`torn`, `orphaned`).
* KILL refuses new orders and cancels nothing (`control.hpp:10` "cancel all");
  the design leaves that to a gateway which is not there yet.
* At the end of the feed the broadcast reaches core and exec together, and exec
  may find its ring empty before core has drained its own (`README.md:121`).
  MaxEventsRunComplete is the case `runner.hpp:68` names.
* A feed that ends unprompted makes the manager exit 0, as its own header says;
  `README.md:123` says nonzero.

## 5. Bounds

Every bound is a constant named `Max...` (or a capacity), used in a guard.
* Ring: two slots, counters modulo 4, two words of two items: full, empty and
  wrap all occur, twice over; one crash. `size()`: up to four pops between its loads.
* Seqlock: two stores, two readers, two words: a load can overlap none, one or
  both stores.
* Order book: three orders, five prices of which one or more fall outside the
  four-level window for every base, so drops, emptied tops and replaces across
  the window's edge occur. The feed only executes what is left, as ITCH does.
* Exec: two orders and a request ring of two, so that it fills. In the live run
  one or two lots, limit orders at 2 and market orders reserved at 0 or 1, fills
  at 1 and 2 (better and worse than reserved), and a position limit and funds
  that a third lot or a fourth quote unit would exceed. In `exec_null` GTC and IOC
  orders of one lot, all four optional callbacks and two operator interventions;
  the queue has room for four answers to each of the live orders.
* Restart: three processes, two identifiers and two stores, each anywhere: a
  process that dies before, inside or after a store, twice in a row; a row of two
  words.
* Pipeline: rings of two; eight events against a `max_events` of four, so that core
  leaves while the exchange is blocked; one respawn, and an exec that may be slow to
  come up both times.
* Manager: one death (a crash, failed start or failed fork) and two operator
  requests of any kinds, at any time; clearing KILL is not bounded.
* Dashboard: five events, a ring of two, three tries per period (64 in the code:
  only that they end matters) and a book panel refreshed every third UI frame,
  so that all tries are refused and frames are dropped.
* Structures: ten bits, radix three, three tiers with a partly filled last word;
  four references, four identifiers, four slots, all hashes (`OrderMap` stays
  one below capacity, a full one does not terminate, as the code remarks;
  `OrderTable` runs fuller than the code's load of one half); four executions and
  one mark at prices and sizes
  whose quotients do not divide; two orders, four requests and three clock steps
  of 1, 5 or 40 seconds (through several steps of the cost table) against a
  maximum that one cancel passes; three samples in four buckets, the top one
  included; three messages of nine types through two slots and one frame; four
  loads of six kinds of file with two rewrites and three descriptors; four
  config lines for a table of two; up to four pops between the loads of `size()`.

Deadlock is checked where the system cannot stop (ring, seqlock readers, book)
and not where it does end (pipeline, manager, exec) or where a bound ends the
behaviour (restart, dashboard, structures).

## 6. Fairness

* Ring: the consumer polls in a loop that never blocks. Nothing is assumed of
  the producer.
* Seqlock: a store that has begun ends; readers poll for ever. No further store
  is assumed.
* Exec: the hot thread is pinned and never blocks (weak fairness of the loop),
  a draining exec eventually finds the feed empty (strong fairness of that one
  step: its producer was told to stop too, or is slower than exec when exec alone
  is restarted), and a venue takes requests.
* Pipeline: each process is a spinning loop on its own core, a forked exec comes up;
  the manager polls.
* Restart: core goes on adding its row, the manager reaps a dead core and
  broadcasts (it polls), and exec comes up and its `setup()` goes on looking at the table and at
  its flag. Nothing is assumed of exec's own progress after that.
* Dashboard: a store that has begun ends, the snapshotter wakes every period, the
  UI draws every frame, core joins when it can. Nothing is assumed of the feed.
* Manager: it polls every 20 ms; workers that start or stop get on with it. No
  fairness of crashes, of the operator or of the feed's end.

## 7. Proofs

Each theorem holds for every value of the constants, under the named assumption
of its module (`RingAssumption`, `BookAssumption`, `OrdersAssumption`, ...), which
TLC evaluates on the runs' instances. A few theorems have a further hypothesis in
their statement; the runs' instances satisfy those too. Whenever an invariant
was not inductive, the strengthening is the formula named `...IInv`; a run's
property then follows from it in one step.

* `SpscRingProofs`: `TypeCorrect`, `RaceFreedom`, `Refinement` (the ring
  implements `BoundedFifo`), `SizeSound`. Neither the type invariant nor race
  freedom is inductive: what the two sides hold is a stale copy of the counters.
  The strengthening says that a claim's `writeIdx` is the current `tail` and was
  granted while there was room (room only grows under a claim), that a copy's
  `readIdx` is the current `head` and the ring is not empty, and that the words
  already stored and already copied agree with the item and the slot. Two
  counters at a distance of 1 to `Capacity - 1` designate different slots
  because `Capacity` divides `CounterMod`; those modular facts are lemmas of
  their own. `SizeSound` needs `LagAssumption`: fewer pops between the two loads
  of `size()` than the counter has values. The head loaded is then behind the
  current one by exactly the pops since, and the distances add up.
* `SeqlockProofs`: `TypeCorrect`, `Refinement` (the seqlock implements
  `AtomicCell`): with `seq` even, `data` is the last completed frame; during a
  store the written words are the new frame's; and a reader whose `pre` still
  equals `seq` has copied only words of the current frame. On top of it, for
  `ExecRestart` with `TradingPanels`: `IdsDistinct`, `WholeRows`, `RatesSound`. There
  the strengthening is conditional on what has happened: as long as no exec died
  inside a store, the seqlock's own invariant holds, `exec_stats` is of a
  generation already spawned, and the dashboard's samples are not newer than
  it; as long as no generation was orphaned, every identifier issued is of a
  generation that `exec_stats` has reached, or is the running exec's own and
  counted. `IdsDistinct` assumes `GenerationsFit` (fewer processes than the
  generation field counts, 2^24 in the code).
* `ManagerProofs`: `TypeCorrect` (which includes that the manager exits only when
  every worker is reaped), `KillStays`, and the action property `SwapKept`. The
  first two are inductive together; the steps that matter are reaping an exec and
  the operator's clear. `SwapKept` needs `SwapInv`: from the request to the reaped
  exec, the path is still set unless another restart took it.
* `PipelineProofs`: `TypeCorrect`, `ResetExact`, `NothingMissedSilently`,
  `DrainComplete`. The invariant orders the sequence numbers from exec back to
  the exchange (popped, queued, published, dropped) with the resets exactly at the
  breaks, keeps MarketView's count (handled plus gaps is the range it has seen),
  and says who stops first.
* `OrderBookProofs`: `LevelsExact`, `TracksExchange`, `TopExact`, `BestOccupied`,
  `WalkSorted`, `TypeCorrect`. Every handler is a composition of "add to a level"
  and "take from a level"; each is shown to keep the totals equal to the sums over
  the orders, the bits equal to the levels with a total, and the map equal to the
  exchange's. All about the cached best assume `PricesFit`: prices on the tick, and a
  window that does not reach the width of a price. Without it `BestOccupied` is
  false, which the run `orderbook_subpenny_top` shows. For the walk, one step from a level
  goes to the nearest occupied one, so that the k-th level has k - 1 better
  ones; two levels with the same rank are the same.
* `ExecOrdersProofs`: `TypeCorrect`, `Balanced`, `Agreement`, `PositionLimited`,
  `Funded`, `KillSeen`, `EveryRequestAnswered`, `NothingLeft`. The heart is `ChanInv`: there is a history of venue books,
  one per report under way, from the book exec's table reflects to the venue's
  own, such that each report is what the venue says between two successive
  books and each row agrees with the first. Applying a report drops the head of
  that history; serving a request appends to it. `AccountInv` makes open lots and
  reservations the sums over the rows, `RiskInv` bounds what one amend in flight
  can add to them as long as nothing raced it, `LoopInv` dates the cached flags.
  `PendingInv` is what `CancelCompletes` rests on: the request for which a row is
  marked, or a report that settles it, is under way, so that no mark is for ever.
  `NothingLeft` assumes the NullRouter and `RoomForAll` (a queue of four slots per
  order), by `RestInv`: the hot loop leaves `poll` only with an empty queue,
  so that until the next one what is queued is about live rows only, at most two
  reports for each row and one for each mark; the walk of `cancel_all` is therefore
  never refused, and each row behind it is marked. When the last poll has emptied
  the queue, no mark is left, and so no row.
* `StructuresProofs`, one part each: `FeedShownInOrder` (from the screen back to the
  publisher the frames get newer); `RateSound` (there is a sequence of cumulative
  charges under way by which the two counters differ, whatever the clock does, and an
  order is dated by exec no earlier than by the venue); `NothingStale` (what is queued
  is fresh); `LoadsSound` (what each step of a load holds open, and what it has
  checked); `ConfigExact` (every entry has a first and a last line in the file);
  `AccountIsExact` (a flat position has no cost; then arithmetic of truncating
  division on opening, cutting and flipping); `BitmapSound` (a summary bit is set
  exactly when its word is not empty, kept by `clear`'s walk up the tiers; from it,
  by induction from the top tier down, each tier's search finds the nearest bit);
  `MapSound`, `TableSound` and both as `TablesSound` (no free slot lies between a
  key's home and its slot; while an erase runs, the same but for the hole, and nothing
  between the hole and the last slot seen has a probe that passes the hole, so that
  the free slot that ends the loop leaves no probe broken. `order_table.hpp` compares
  distances from the slot and `core.cpp` distances from the home: `GapSwap` shows
  that the two tests are one). They assume one free slot and nothing of the hash.
  `PercentilesSound`: the histogram counts the samples bucket by bucket, and the
  dashboard's copy the first of them; the bounds double, so that a later bucket
  holds larger samples; the running sum counts the samples up to a bucket, and the
  first bucket in which it passes the threshold is that of the sample of that rank.
* `FoldTheorems` holds what the others share: induction over the subsets of a
  finite set and over an interval, in the form "a set `Good` that contains the
  first and is closed under the step contains all", which needs no operator as a
  parameter; what sums over finite sets are when an element comes, goes or
  changes; and that `Max` and `Min` of a finite set are its extremes. A recursive
  function is unfolded by proving first, with the interval induction, that its
  equation has a solution.

Model-checked only:

* All liveness (`Delivers`, `EventuallyVisible`, `CancelCompletes`,
  `ShutdownCompletes`, `EverythingStops`, `RequestsSettle`, `SetupSettles`,
  `SnapshotsFlow`): fairness and ENABLED are out of the prover's reach.

## 8. Not modelled

* Text and layout: the statistics log, drawing, the characters of configuration
  lines and numbers, the byte offsets of ITCH messages, the plain structs and
  static assertions of the shared segment, instruction wrappers. They are pure
  or covered by the repository's unit tests.
* Floating-point figures: mid, volatility, microprice, imbalance and the
  dashboard's display values. The rate model's decay is on whole seconds.
* `rate.model = none`, and that a restarted exec starts with a counter of zero:
  the code does not carry it over and no gateway exists to be refused by.
* The static checks of the risk gate (status, tick, lot, price band, notional
  caps) look only at one order and the mid; in `ExecOrders` they restrict `Px` and
  `Qty`. Fees are in `Account` only. In `Account`: instruments with a negative
  tick-lot exponent.
* Which strategy it is: a strategy is any sequence of requests. The state export
  and import of the module table, which nothing calls, and the table of builtin
  strategies, a lookup by name.
* A module file truncated while it is mapped (SIGBUS).
* Time stamp counters that disagree between cores, which the latency figures
  subtract.
* A feed that executes more than an order holds (unsigned wrap-around), and a
  full order map.
* The bytes of `swap_path` while they are copied.

## 9. Plan

Done: everything in section 2, with the proofs of section 7. What is left to
model is in section 8; of it only the static checks and the negative exponent
would add control. Every safety invariant
and action property that a passing run checks is a theorem; liveness is left to TLC.
