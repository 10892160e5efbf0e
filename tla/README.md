# hedging-engine: TLA+ models, model checks and proofs

This directory specifies the hedging engine of this repository in TLA+, checks
the specifications with TLC on small instances and proves their safety properties,
the action properties and the refinements among them, with TLAPS for every value of
the constants. Paths below are relative to the root of the repository's sources.

    tlc -config MCOrderBook.cfg MCOrderBook      # a run
    tlc -config MCTcpFeedFraming.cfg TcpFeed     # the one run without an MC module
    tlapm HedgeEngineProofs.tla                  # the proofs of a module

`PROJECT.json` lists the runs, what each definition translates (`map`), a
mutation that each checked property catches (`mutants`), what can go wrong in
the code (`hazards`) and where the code departs from what it says (`findings`).

## 1. Inventory

The program is a library with a small console binary. It has no threads of its
own: its types are `Send + Sync`, and callers share them between feed threads,
hedging threads and background calculations. Nothing is persisted.

| Component | Source | State | Operations |
|---|---|---|---|
| `LockFreeQueue` | `src/utils/lockfree_queue.rs` | a ring of slots, atomics `head`, `tail` | `try_push`, `try_pop`, `is_empty`, `is_full`, `len`, drop |
| `MPSCQueue` | same file | a ring and the spin lock `enqueue_lock` | `try_push` (locked), `try_pop`, `is_empty` |
| `OrderBook` | `src/market_data/orderbook.rs` | per side and level a price and a size, a timestamp, a sequence number, all atomics | `update_bid`, `update_ask`; `best_bid`, `best_ask`, `mid_price`, `spread_bps`, `get_bids`, `get_asks`, `sequence`, `last_update_ns` |
| `MarketTick` | `src/market_data/tick.rs` | immutable | constructors, conversions |
| `DeltaHedge` | `src/hedging/delta.rs` | atomics `position`, `hedge_ratio`, `hedge_position` | updates, `get_recommendation`, `execute_hedge` |
| `MVHRStrategy` | `src/hedging/mvhr.rs` | two price windows, each under a lock; atomics with the cached ratio and its time | `add_observation`, `calculate_optimal_ratio`, `get_hedge_ratio`, `needs_recalculation`, `get_statistics` |
| `MeanReversionHedge` | `src/hedging/mean_reversion.rs` | a price window under a lock; atomics with mean and deviation | `add_price`, `calculate_statistics`, `calculate_z_score`, `should_adjust_hedge` |
| `SparkSpreadHedge` | `src/hedging/spark_spread.rs` | three hedge counters and an average, atomics | `update_avg_spread`, `get_recommendations`, `execute_hedge`, `get_positions` |
| `HedgeEngine` | `src/hedging/engine.rs` | two books, the strategies, metrics under a lock | `new`, `on_tick`, `get_hedge_recommendation`, `execute_hedge` |
| `CompositeStrategy` | `src/strategy/mod.rs` | strategies and weights, fixed | `calculate_hedge` |
| `Metrics` | `src/utils/metrics.rs` | counters and a histogram | `record_tick_latency`, `record_hedge_execution`, percentiles |
| TCP feed, order submitter | `src/network/tcp_stream.rs` | a stream and a buffer | `read_tick`, `read_batch`, `submit_order` |
| DPDK wrapper | `src/network/dpdk_wrapper.rs` | placeholders | none that does anything |

How they interact: ticks come from the feed (or from a queue between a feed
thread and an engine thread) to `on_tick`, which updates one of the two books,
the price window of the mean reversion strategy (spot ticks) or of the MVHR
strategy (futures ticks), and the metrics. A caller asks for a recommendation,
which the delta strategy computes from its three atomics and the futures book;
the engine then stores the MVHR ratio in the delta strategy and scales the
quantity with the mean reversion factor. The caller executes the recommendation
at a time of its choosing, or lets it go.

What is hard, and what would make each component correct:

* the queues: who may touch a slot rests on one Acquire/Release pair in each
  direction and on one slot that stays empty; indices wrap. Correct: no data
  race, no lost, duplicated or uninitialised item, first in first out, drop
  releases the rest, the estimates make sense;
* the books: four stores and two loads that nothing joins. Correct: how far
  the parts of a quote may be apart is bounded, and the sequence number and
  the timestamp cover what is read after them;
* the delta strategy: three loads that need not belong together, a
  recommendation that is executed later, several callers, amounts that lose a
  hundredth when they pass through `f64`. Correct: the delta was true, hedging
  settles, the hedge follows the orders, two callers cannot run away;
* the engine: strategies and metrics updated in steps without a common lock.
  Correct: the metrics cover the hedge, a bounded number of trades, the hedge
  gets to the target and stays; observations follow the ticks, every tick is counted,
  a recommendation has a price of its time;
* MVHR, mean reversion, spark spread: windows and cached results that are
  stored under read guards or in several atomics. Correct: windows in step,
  the cache never goes back to an older window, no torn statistics used;
* the feed: a read timeout in the middle of a tick. Correct: the ticks that
  come out are ticks that went in, in order, or an error is reported;
* the histogram and the composite: pure arithmetic at its edges.

`PROJECT.json` lists under `hazards` each of these at its line, with the
properties that cover it or the reason why none does.

## 2. Modules

| Module | Models | Extends |
|---|---|---|
| `BoundedFifo` | what a queue promises: a first-in first-out queue that holds at most `Bound` items | |
| `LockFreeQueue` | the ring, one step per access to shared memory | |
| `MPSCQueue` | the ring behind the spin lock | `LockFreeQueue` |
| `DeltaHedge` | the delta strategy and the callers that execute its recommendations | |
| `HedgeEngine` | the hedging half of the engine around the delta strategy | `DeltaHedge` |
| `OrderBook` | the book, one step per load and store | |
| `SparkSpread` | the spark spread strategy: the average and the three legs | |
| `TickPath` | the market data half of the engine: `on_tick`, and what a recommendation reads of the books | |
| `MVHRStrategy` | the two windows, their locks and the cached ratio | |
| `MeanReversionHedge` | the cached mean and deviation, and what a score does to the hedge | |
| `CompositeStrategy` | the builder and the weighted average | |
| `TcpFeed` | ticks cut from a stream with timeouts | |
| `Metrics` | the metrics with their histogram | |
| `MCComponents` | the five modules above, one per behaviour | all five |
| `LockFreeQueueProofs`, `MPSCQueueProofs`, `OrderBookProofs`, `SparkSpreadProofs`, `TickPathProofs`, `MetricsProofs` | theorems about the module of that name | that module; the second also `LockFreeQueueProofs` |
| `HedgeEngineProofs` | theorems about `DeltaHedge` and `HedgeEngine` | `HedgeEngine` |
| `ComponentProofs` | theorems about `MVHRStrategy`, `TcpFeed`, `MeanReversionHedge` and `CompositeStrategy` | these four |
| `MC...` | the values of the constants for TLC | |

Definitions whose names end in `Not`, `Swapped`, `Relaxed`, `Late` and the like stand
before the definition they vary and are plausible mistakes; nothing uses them
in the specifications. They are the `mutants` of `PROJECT.json`.

### LockFreeQueue and MPSCQueue

`head` and `tail` are kept as their modification orders, the sequences `heads`
and `tails`. A thread may load any value not older than one it has
synchronised with; `view[p]` and `cview` say what that is. Because a store is a
Release and the load that reads it an Acquire, a position a thread has acquired
stands for all slot accesses before the store of that position. `wroteAt` and
`readAt` record, per slot, the position that publishes the last access, so that
a data race is the invariant `NoDataRace`.

`try_push` is `LoadTail` (98-100), the Acquire load of head and the check,
`RefuseFull` or `FindRoom` (101-106), `WriteSlot` (108-111) and `Publish`
(113-117). `try_pop` is `FindEmpty` or `FindItem`, `ReadSlot`, `Advance`. The
drop of the queue is `BeginDrop`, `DropItem` per item, `EndDrop`. `is_empty`
and `is_full` are single steps whose answers are remembered until the next
operation (`sawItem`, `sawRoom`); `len` reads two indices in any admissible
combination and is a property. In `MPSCQueue` a producer takes the lock, makes
the steps of the ring's `try_push`, and releases the lock; the lock passes the
holder's view on with its Release store. Failed `compare_exchange_weak` calls
are stuttering. Callers do not drop a queue while another thread uses it:
ownership in Rust rules that out.

`ImplementsFifo` is the refinement: the abstract queue is what was accepted and
has not been taken out yet, `Publish` is the abstract push and `Advance` the
abstract pop.

### DeltaHedge

Every atomic access is a step. `LoadPosition`, `LoadRatio`, and
`RecommendNothing` or `RecommendHedge` (the load of the hedge with the
arithmetic) are `calculate_hedge_delta`; `Recommend` loads the position again
for the urgency. A caller then holds a recommendation (`pc = "holding"`) and
either executes it, a `fetch_add`, or drops it. Positions are hundredths and
ratios ten-thousandths as in the code, division truncates towards zero, and
the passage of a quantity through `f64` is `Cents`: for the `n` of the constant
`LossyCents`, `(n as f64 / 100.0) * 100.0` is just below `n` and the cast loses
one. The comparison with a tenth of the position is in `f64`, so either answer
is allowed when the two are equal.

The atomics are modelled as interleaved single accesses: each variable is read
at its newest value. Nothing but the three atomics is shared, and the
properties with several variables are about one hedging thread (which sees its
own additions) and one other that changes position or ratio.

`updates`, `executions` bound the runs. `truths` (the deltas that were true while
a caller was loading), `torn` (whether the position and after it the ratio were
stored between its loads of the two), `ordered` and `trades` are histories.

### HedgeEngine

`DeltaRecommendation` interleaves the steps of `DeltaHedge`; `AdjustWithMvhr`
stores the MVHR ratio (145-150); `ExecuteOnStrategy` and `RecordHedgeExecution`
are the two halves of `execute_hedge`. The engine hands out no reference to its
strategies, so the position is the configured one, the MVHR ratio is the 1.0 of
`MVHRStrategy::new` (nothing calls `calculate_optimal_ratio`), and the standard
deviation of the mean reversion strategy stays 0, with which its factor is
always 1.0. `validate` is the assumption `ValidConfig`.

### OrderBook

Each location is its modification order: a sequence of messages, each with the
update that stored it and the view its Release store carries. A load takes any
message not older than the reader's view and joins the message's view. The
values do not matter and are replaced by the number of the update. `Stores` is
the program order of `update_bid`/`update_ask` (65-70, 78-83); the increment of
the sequence reads the newest message, as every read-modify-write does. `Calls`
are the read operations as lists of loads, and the two orders in which a careful
reader combines them (the sequence before and after; the timestamp before).

The reader makes one call (`MaxReads`). Earlier calls of the same thread would
only have raised its view and so narrowed what the call can load; a reader that
starts with the oldest view has all results that any reader has.

Stores are added at the end of a location's modification order. With a single
writer per book that is no restriction; with several writers it leaves out
executions where two writers' stores are ordered differently in two locations than
in time. In the queues only one thread at a
time stores a location, so nothing is left out.

### SparkSpread

The locations are modification orders as in `OrderBook`, with the values. `Ask`
is the start of `get_recommendations` with the load of the average,
`StoreAverage` its store and `is_profitable`, `KeepHedge` or `Rehedge` the load of
the power hedge and the threshold, `Recommend` the second load of the average for
the urgency; `SellPower`, `BuyGas`, `BuyCo2` are the three `fetch_add`s of
`execute_hedge`. A reader makes the three loads of `get_positions` (`ReadLeg`),
once, for the reason given for the book. The prices of the three books enter as
the spread they give. Where the code multiplies by 100 or 10000 in `f64` and casts,
`Cast` gives the truncated quotient, or one nearer to zero if it is a whole number.

### TickPath

`on_tick` and the part of `get_hedge_recommendation` that reads the books are lists
of steps (`OnTick`, `HedgeSteps`); a thread's call is what is left of its list, so
any number of threads interleave between any two accesses. A quote is the price at
level 0 of one side of one book and is known by how often it has been stored.
`UpdateBook` is `update_bid` or `update_ask`, `LoadQuote` one load of a mid price or
of the price of a recommendation, `AddToHistory` and `Observe` are the calls into the
mean reversion and MVHR strategies (each under its own lock, hence one step),
`RecordLatency` is the write of the metrics. The configuration's two flags are chosen
at the beginning. Loads return the newest value: what stale loads and the other
stores of an update add is the subject of `OrderBook`. The quantity and the side of a
recommendation come from `DeltaHedge`; here the side is chosen.

The histories are what the properties compare: how often the tick's quote had been
stored with its own store (`stored`), how many observations there were when a call
began (`earlier`), the quotes when a recommendation was asked for (`begun`).

### MVHRStrategy

Each lock has a writer bit and a set of read guards, as in `parking_lot`: a writer sets
the bit once no other writer has it, which keeps new readers out, and waits for the
readers to leave. `add_observation` is `AddObservation` (the first lock), `WriteFutures`
(the second), `PushSpot`, `PushFutures`, `TrimWindows` with the end of both guards.
`ReadFirst` and `ReadSecond` are the two read locks of `calculate_optimal_ratio` and
`get_statistics`; `CalculateNone` and `Calculate` the arithmetic, then `StoreRatio`,
`ReadTime`, `StoreTime`, `ReturnRatio`. `LoadLastCalc` and `AnswerDue` are
`needs_recalculation`. A window holds the numbers of the observations; the prices are
whole numbers with returns in multiples of `1 / PriceScale`, so the ratio is computed
as the code computes it, with the early returns, and with NaN where a price of 0
divides: a comparison with NaN is false, its cast is 0.

`get_hedge_ratio` is a load of `cached_ratio`; the property about it is what may be
stored. The clock moves at any time and is the same for all threads.

### MeanReversionHedge, CompositeStrategy, TcpFeed, Metrics

`MeanReversionHedge`: a window, its mean and its deviation are known by the number of
prices added when they were calculated, so that a mixture of two calculations shows.
`BeginCalculation`, `StoreMean`, `StoreDeviation` are `calculate_statistics` (30 prices
are the constant `MinPrices`), `LoadFirst`, `LoadSecond` the loads of
`calculate_z_score`, `AdjustHedge` is `should_adjust_hedge`. A z-score is any of a set of
tenths around the thresholds, or 0 where the deviation is.

`CompositeStrategy` asks one strategy per step; the average is kept as numerator and
denominator. `TcpFeed` counts the parts of the stream that have come in, been taken
from it, and lie in the buffer; `Take` is one read inside `read_exact`, `TickRead`
its success with the loop of `read_batch`, `TimeOut` and `ReadError` its failures. A
tick is known by where it began. A timeout needs an empty stream, since a read of
a stream that has something returns it. `Metrics` is sequential; its properties compare the histogram with the
latencies it was given.

## 3. Runs

| Run | Question | Bounds |
|---|---|---|
| `spsc` | is the ring free of races and losses, are its estimates sound, does it implement `BoundedFifo` | 4 slots, 6 items of 2 values: slots are used again, both indices wrap, the ring is full and empty at several offsets |
| `mpsc` | is the lock enough to share the ring between producers | 3 producers, 5 items, 4 slots |
| `mpsc_live` | does the system get every item in and out | 2 producers, 4 items, a ring that holds one |
| `delta` | one hedging thread while position and ratio change under it: was its delta true, does hedging settle, does an execution reach the target, is the position hedged in the end | 4 positions, 2 ratios, 3 changes, threshold 5 %, 12 executions |
| `engine` | two callers: do the metrics cover the hedge, does the hedge follow the orders, how far off can it get, how often does a caller trade that is alone | 5 positions, 2 ratios, with and without MVHR, threshold 0, 8 executions |
| `ticks` | two feed threads and one recommendation: are observations and prices those of the right ticks, is every tick counted | 4 configurations, 3 ticks of any symbol and side, 1 recommendation |
| `components` | the five components of `MCComponents`, each alone | see below |
| `book` | how torn can a quote be, what do `sequence()` and `last_update_ns()` tell | 2 writers, 3 updates, level 0 and level 10, which does not exist |
| `spark` | does the average stay in range under lost updates; is a plant sold once; how torn are the positions, do the legs balance | 2 threads, 3 calls, a spread below and one above the target, 1 hour, 99.99 MW at heat rate 1.9 |
| `engine_default_ratio` | see section 5 | one short position, ratio 1.125 |
| `spark_rehedge` | see section 5 | one thread, one spread, 1 or 2 hours |
| `feed_framing` | see section 5 | 3 ticks of 3 parts, `read_tick` |

The positions were chosen for their edges: short, flat and long, with and
without a fraction at ratio 1.125, and amounts that lose a hundredth (58, 113).
Three changes of position or ratio are enough to change one during a
calculation, one before its execution and one after. The bound on the
executions in `delta` is never reached (three trades per change are the property), so
it hides nothing and deadlock is checked there. In the engine's run one caller alone
never reaches it either; with two callers four executions of each show every alternation, and the
theorem covers the rest. Three updates of a book put two of them on one side
with one of another writer or of the other side in between, and a reader inside
an update while the next one begins. With two threads and three calls in the
spark spread run, each thread sells before it has seen the other's sale and one
of them sells again; the capacity is such that gas and CO2 lose fractions in the
conversion.

Three ticks in `ticks` let two futures ticks overlap each other in every way, with
an earlier spot or futures tick to be confused with. A behaviour of `components` is
one of the component chosen at its start, because the five share nothing. For MVHR:
windows of three, four observations, so that a window is trimmed while others
calculate, two threads, two other calls and a clock of three values with an interval of
one; an empty book gives the price 0. Mean reversion: two calculators, one reader, five
prices in windows of two and three. The composite: three strategies with weights
-1, 0, 1 and 3 and quantities of either sign. The feed: four ticks of three parts in batches of up to three, so that a
timeout can leave one or two parts, and three timeouts make up for each other. The
metrics: four records at the edges of the first, the middle and the last bucket.

Symmetry is used in safety runs only (producers, writers, hedging and feed threads).
Deadlock is checked except where the system ends: after the queue is dropped, in
the engine's run once `MaxExecutions` is used up, and in the book, the spark spread,
the ticks and the components once their bounds are. That no call of the MVHR strategy
hangs is a property (`CallsReturn`).

What the properties say in words stands above each of them. In short:

* the ring implements a first-in first-out queue of its capacity less one
  (`ImplementsFifo`), no slot is accessed while the other thread's access to it is
  unordered (`NoDataRace`), and the answers of `is_empty`, `is_full` and `len` still
  mean something when they are used (`ChecksStable`, `LenBrackets`);
* the delta that was computed from three loads was the right one at some moment
  of the call (`DeltaWasTrue`) unless the position and after it the ratio were
  stored between two of the loads. The order of the loads matters: read the
  other way round, one store is enough;
* one change of position or ratio costs at most three trades
  (`SettlesInThreeTrades`), a caller that is alone at most three in the life of the
  engine (`AtMostThreeTrades`);
* two callers that execute the same recommendation overshoot by no more than the
  target (`OverhedgeBounded`). With three callers this fails, the gap can grow with
  every round;
* an MVHR observation is made of the tick that caused it or a newer quote, and of two
  ticks whose calls do not overlap the later one's observation comes later and uses
  nothing older (`ObservationsFollowTheTicks`); a recommendation has the price of its own
  side, of the time of the call (`RecommendationsArePriced`); every tick is counted once by
  everything it is meant for (`TicksProcessedOnce`);
* the two MVHR windows agree for whoever holds both guards (`ReadersSeeTheWindow`), a
  stored ratio is that of the windows as they are (`StoredRatioIsOfTheWindow`), "not due"
  means that what the ratio leaves out is recent (`NotDueMeansRecent`), and no call
  hangs (`CallsReturn`). The guards held through the stores are what the second rests on,
  the ratio stored before its time the third;
* a z-score may mix a mean with a deviation of the calculation before, or of any later
  one, but of none earlier (`DeviationNotOlder`); the hedge is reduced as much below the
  mean as above it and never more nearer to it (`ReducedBothWays`);
* the composite's quantity lies between those of the strategies that answer, unless one
  of these has a negative weight or their weights add up to 0 (`BetweenRecommendations`);
* a tick is read whole exactly while timeouts have lost whole ticks
  (`WholeIffNothingLost`); until they lose something callers get the ticks in order,
  and an error costs less than a batch (`OnlyABatchIsLost`);
* a percentile is above the sample of its rank and at most twice as large, except with
  too few samples (`SummaryOfTheLatencies`);
* on a side with one writer a quote is torn by one update at most
  (`TornByOneUpdate`): a size is never older than that of the update just before
  the price; and a book at rest is whole (`BookAtRestIsWhole`). With two writers
  on a side neither holds, the sizes can stay mixed;
* `sequence()` covers the updates it counts (`SequenceCovers`) and has counted
  the earlier updates of a writer whose value was read before it
  (`SequenceCountsEarlier`); a timestamp covers what is read after it
  (`TimestampCovers`); these hold with any number of writers;
* the spark spread's average stays in the range of the spreads although updates
  are lost (`TypeOK`), one thread sells the plant once for the same hours
  (`SoldOnce`), the positions show at most one uncovered sale per thread
  (`LegsCovered`), and between executions the legs are in the plant's proportions
  (`LegsBalanced`).

## 4. Fairness

Liveness is checked under what the callers of the library do, not under
anything the library enforces:

* `MPSCQueue`: threads that called `try_push` or `try_pop` finish the call (weak
  fairness of its steps), callers retry a refused push, and loads are not stale
  for ever, since hardware makes stores visible in finite time (weak fairness of
  `FindItem`, which stays enabled between two calls, strong fairness of
  `FindRoom`, which is enabled anew in every call). The spin lock gets weak
  fairness only: it is not fair, and a single producer may starve, so
  `AllDelivered` is about the system as a whole. The single-producer ring is the
  case of one producer that never waits for the lock;
* `MVHRStrategy`: some thread that is in a call and can go on does (weak fairness of
  `Proceed` for all of them together). Which one gets a lock that several wait for is
  open, and that callers call again is not assumed;
* `DeltaHedge` and `HedgeEngine`: a caller keeps asking (weak fairness of its
  steps) and keeps executing what it is given, as `main` does; it may let some
  recommendations go but not all from some point on (strong fairness of
  `ExecuteHedge`). Nothing is assumed of the changes of position and ratio but
  that they end.

## 5. Where the code differs from what it says

Three runs check a statement of the repository and find it violated:

* `engine_default_ratio`: with `enable_mvhr`, which is the default, the first
  recommendation stores the MVHR strategy's initial ratio 1.0 over the configured
  one (`src/hedging/engine.rs:147`); the next recommendations trade back
  from 1.125 to 1.0. The configuration calls its ratio the default hedge ratio,
  and the backtest example prints 1.125 as the target. (The first recommendation
  itself is still at the configured ratio, although the comment on line 144
  says that it is adjusted.)
* `spark_rehedge`: the field documents that hedges are renewed only if the spread
  changes by the threshold; the code compares volumes. With an unchanged spread a
  change of `hours_ahead` brings a recommendation for the full new volume, not for
  the difference, and once it is executed the hedge and the volume never meet
  again: every further call recommends the whole volume once more. Two threads
  that hedge at the same time get there without a change of the hours.

* `feed_framing`: a read timeout that comes in the middle of a tick. `read_exact` has
  taken the first part from the stream, `read_tick` answers that there was no tick, and the
  next call fills its 32 bytes from the rest of that tick and the beginning of the next,
  although it is documented to read the next tick. It stays that way until timeouts have
  lost a whole number of ticks (`WholeIffNothingLost`). With the 100 ms of
  line 27 it takes a sender or a network that pauses inside a tick.

Not checked, since time in the models has no unit: on x86-64 `get_timestamp_ns` returns
the time stamp counter, which counts cycles, not the nanoseconds its comment and the
24 hours of `recalc_interval_ns` speak of.

`max_position` is documented as the maximum position size and validated, but
nothing reads it; there is no step to check it against.

## 6. Proofs

The theorems hold for every value of the constants allowed by the `ASSUME`s of
the modules: any power of two for the capacity, any number of producers and
callers, any integer positions and ratios, any bound on the histories.

**The ring** (`LockFreeQueueProofs`). The items are numbered as they are accepted,
item `i` in slot `(i - 1) % Capacity`. The modification orders then are these
remainders (`Indices`), and because at most `Capacity - 1` items are in the
ring, two positions less than `Capacity` apart never share a slot
(`SlotInjective`). The inductive invariant `RingInv` adds to it: what a push or
a pop in progress has loaded (`Pushing`, `Popping`), which item each slot holds
(`Contents`), which position publishes the last accesses to it (`Epochs`), and
what has come out (`Histories`). The safety properties follow from it, among
them `NoDataRace`: the free slot a producer found is `Capacity` behind the one
that was published last in it, so the head it has acquired is past the read.
`RingInv` is proved under `NEW p \in Producers, Synced(view[p])`, so that the
locked queue can use it. `LenHolds` is arithmetic over all admissible pairs of
stale indices. `ImplementsFifoHolds` is the refinement: under `RingInv` the abstract
queue is `Pending`, the items accepted and neither taken nor released
(`RingHoldsPending`), so that the store of `tail` appends to it (`PublishRefines`),
the stores of `head` by `try_pop` and by `drop` take its first item
(`AdvanceRefines`, `DropRefines`) and every other step stutters.

**The locked queue** (`MPSCQueueProofs`). `MpscInv` is `RingInv` with mutual
exclusion and `LockSynced`: the view the free lock carries, or its holder's own,
is that of the newest tail. Each ring step under the lock is then a ring step of
the only active producer. `MpscImplementsFifo` reuses the lemmas of the ring; taking
and releasing the lock stutters.

**The delta strategy** (`HedgeEngineProofs`). `DInv` adds to the type invariant that
a held recommendation has the absolute value and the side of a delta that is not
zero (`RecMatches`). From it: `HedgeFollowsOrders`, for any number of callers,
since an execution changes both sides by amounts at most one apart; and
`ExecutionHitsTarget`. `DeltaWasTrue` needs `Snapshot`: with one hedging thread the
delta for the position and ratio it has loaded so far, with the hedge as it is,
is in `truths`, and between its first two loads the same holds for the loaded
position with the current ratio, until `torn` says that both have changed.
`SettlesInThreeTrades` needs `Settling`, also with one hedging thread: since the last
change of position or ratio, after one trade whatever the thread has loaded or
computed is still true (`Fresh`), after two the hedge is within one hundredth of the
target, since an execution of more than one hundredth may lose one, and after three it
is the target and no recommendation is held, since an execution of one loses nothing.

**The engine** (`HedgeEngineProofs`). `EInv` is `DInv` with where the engine's
method is relative to the strategy's (`Phases`). Every step of the engine is a
step of the strategy, a stutter of it, or the store of the MVHR ratio, so the
invariants of the strategy carry over. `OverhedgeBounded` needs `TwoInv`: of two
callers with a fixed target, each pending delta and the gap cancel or agree up to
the target, so that the gap stays between minus and plus the target; the
rounding of `TruncDiv` and of `Cents` is covered by `CancelsGap` and `PendingNear`.
`AtMostThreeTrades` is the argument of `Settling` with executions for trades (`Life`): a
caller that alone has been given recommendations has the MVHR ratio stored before
it gets to the execution of the first, and every later store is of the same ratio, so from the first
execution on the ratio is final and what it loads is fresh. Others may ask as long as
they get no recommendation. `MetricsCoverHedge` is inductive once the callers between
the two halves of `execute_hedge` and their amounts are known to be finite sets
(`Uncounted`): an amount is the size of a set of hundredths, an execution adds the
caller's set and `RecordHedgeExecution` takes it out as the volume grows by as much.
The theorems hold for any number of callers, `OverhedgeBounded` for two.

**The book** (`OrderBookProofs`), for any number of writers, levels, updates and calls.
`BInv` says what the views in the messages stand for. An update under way has stored
what it no longer has to do and has seen it (`Writing`); a message comes from an update that has
come that far (`Origins`); the view of a timestamp covers the price and the size of its update
(`Stamps`); the sequence number counts each update once, and the view of its value
`n` covers the stores of all `n` counted (`Counting`), because its increments read each other;
a writer has seen its earlier updates counted and says so in all it stores
(`Finished`); what a reader has loaded is in its view, and each load is at or past what
the views of the earlier ones say (`Loaded`), with a size right after its price (`Pairing`). `SequenceCovers`,
`SequenceCountsEarlier` and `TimestampCovers` follow for any writers. For a side
with one writer `Alternation` says that prices and sizes are stored in turn, the
price first, so that a view that has a price has the size before; `TornByOneUpdate`
and `BookAtRestIsWhole` follow.

**The spark spread** (`SparkSpreadProofs`). `SInv` adds to the types that no view in
any message points past the end of a location (`Memory`, `Threads`). The range of
the average is inductive with a margin of 20 ten-thousandths: what the
conversion may lose, one, is what a twentieth of that distance gives back
(`CastNear`, `AverageStays`). `SoldOnceHolds` is proved for plants that have at least
0.22 to sell (`WorthSelling`): the hundredth that the cast may lose is then below the
5 % at which a hedge is renewed, and for less it is not. `SoldInv` says that as long
as one thread asks for one number of hours, either nothing is sold, or that thread has
seen its own sale, which is the newest, and is not about to sell again.
`LegsBalanced` and `LegsCovered` need no such assumption and hold for any number of
threads. For the first, `Balance`: there is an amount `sold` of power, that of the
executed recommendations, that the power hedge is below by at most a hundredth per sale; the purchases of a leg and the threads that
still owe it one are as many as the sales, and the leg's hedge is what `sold`, less
what these threads have not bought for, requires, but for what the conversions lose. The owed
amounts belong to a set of threads in no order, so they are sizes of sets (`Owed`).
For the second, `Cover`: the sales can be attributed to threads (`own`) and the purchases
of a leg to sales (`buys`), one each, such that a thread has seen the purchases of all its
sales but the one it is about to buy for, and every sale shows those of its thread's earlier ones. A reader
that loads the power first then misses at most one purchase per thread.

**The ticks** (`TickPathProofs`). `PathInv`: what a call has still to do is an ordered
rest of its program (`Ordered`: the update before all loads, the loads before the
observation, the metrics last), and what it has loaded so far is fresh (`Fresh`): no
older than its own store nor than any observation that was there when it began.
Quotes only grow, so a load keeps that, and the observation is appended with it.
The programs' order is proved of the lists themselves (`FuturesCall`, `TickCall`) and of
their tails (`TailOrdered`). `TicksProcessedOnceHolds` is a balance (`CountInv`): what has been counted by the
metrics, the price window, the MVHR observations or the two quotes of a book, and
the calls that still have that step to do (`Owing`), are together as many as the ticks that
have arrived for it. It needs that no step is in a program twice (`Once`) and
that only finitely many threads are in a call.

**MVHR** (`ComponentProofs`). `MvhrInv` says who has which lock by where a thread is
(`LockInv`), that the windows are the last observations unless a writer is between its two
pushes or about to trim (`WindowInv`, with `WindowStep`: appending and dropping the first
is the next window), that a ratio in hand is that of the windows, because its read guards keep
writers out (`CacheInv`), and that whatever the cached ratio leaves out was observed
no earlier than the stored time, or the time a caller has loaded, says (`TimeInv`). The
arithmetic is not expanded: the theorems hold for any of it.

**The feed** (`ComponentProofs`). `FeedInv`: the parts taken are those in the buffer, those
lost at timeouts and `TickParts` for each tick read. `WholeIffNothingLost` is that
equation modulo `TickParts`.

**Mean reversion** (`ComponentProofs`). `MrInv`: calculations under way hold their read
guard, so they are of the window as it is (`Calculations`); the means stored are of ever
newer windows (`Means`); and the deviation is that of the mean, or some calculation is
between its two stores and it is that of the mean before or a later one, which is what
a reader that has loaded a mean takes along (`Deviations`). `ReducedBothWays` is
a fact about the factor (`AdjustmentFalls`) and that every answer is one (`Answers`).

**The composite** (`ComponentProofs`). `SumsBetween`: the weighted sum lies between the
least and the greatest recommendation so far times the sum of the weights, as long as
no strategy that has recommended something has a negative weight (`NoneNegative`); the
division at the end keeps that if the sum is positive. Weights and quantities are any
integers, in place of the `f64` of the code: its rounding is not modelled.

**The metrics** (`MetricsProofs`). `MetricsInv`: the least and the greatest latency are
among those recorded (`Extremes`), the total lies between as many times either
(`Totals`), a bucket holds as many as were put into it (`Filled`), the volume is no less
than the net volume either way (`Netted`). The models' sums are folds, and what a fold
computes is not proved by induction but over the sets that are counted: a
sum of natural numbers is the size of a set of units (`SumsAre`, with the least
counterexample `Least`). With it the first bucket in which the running sum reaches a
rank is that of the sample of that rank (`SmallestLies`), which bounds the percentile
by its bucket. The latencies are assumed below `u64::MAX`, which is
also the code's mark of an empty minimum.

Only model-checked are the three liveness properties, `AllDelivered`, `EventuallyHedged`
and `CallsReturn`: liveness under fairness is out of this prover's reach. The numbers a
division or a cast gives are those of the models' definitions (`TruncDiv`, `Cents`,
`Cast`); that these are the code's is not proved.

## 7. Not modelled, and the plan

Not modelled: reasons and timestamps of recommendations; `Display`; serialisation; the
time stamp counter; the numeric value of prices outside the MVHR ratio; the order
submitter, which is two calls of the standard library; the DPDK placeholders; the
binary, the examples and the benchmarks, which only call the library. The statistics
that are reported and not used (correlation, volatilities, half-life, profit and loss)
are left out of the modules whose state they read.

Hazards without a property are those where the code promises nothing: `max_position`, the
two quotes that a mid price is made of, the side of a composite's recommendation, and a
price of 0 from an empty book in a spread or a return (the MVHR module models what it
does to the ratio). `add_strategy` accepts negative weights, and with one the average can
leave the range of the recommendations; nothing says what it should be.

What is left of the plan: stale loads in `TickPath`, which would compose it with
`OrderBook` (its theorems hold for loads of the newest value); and a delta strategy whose
atomics are modification orders, as those of the book and of the spark spread are.
