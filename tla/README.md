# Verification of async-state-synchronizer

TLA+ models of a market-making daemon for short binary markets, checked with TLC
on small instances and proved with TLAPS for every value of the
constants. All paths below are relative to the repository.

## 1. The system

A single Python process on one asyncio event loop. Blocking calls (the exchange
client) run in threads the coroutines await, so code between two `await`s is
atomic for the other coroutines, and a call handed to a thread outlives the
coroutine that awaited it. Durable state is one SQLite database.

| component | source | state | operations | talks to |
|---|---|---|---|---|
| `QuoteManager`: one quoting task per market | `src/state_machine/synchronizer.py` | resting bid and ask per leg, open time per leg, open/lock/close phase of the market | `run`, `_check_fills_live`, `_check_fills_paper`, `_quote_leg`, `_cancel`, `_record_quote`, `_market_sell`, `_flatten` | inventory (synchronous), order manager (awaited), order book poller and consensus (reads) |
| `InventoryManager` | `src/state_machine/memory_manager.py` | shares, average cost, realized P&L per market and leg; mirrored in `mm_inventory` | `apply_buy`, `apply_sell`, `reconcile_leg_to_chain`, `mark_resolution`, `load` | database |
| `OrderManager` | `src/execution/payload_manager.py` | none of its own; it may be given a presigned pool | `place_resting`, `poll_order`, `submit_sell_market`, `submit_fok` and its siblings | exchange client in threads |
| presigned payload pool | `src/execution/presigned_payload_pool.py` | a ladder of signed orders per token, a bounded refresh queue | `notify_book`, refresh worker, `pop_matching`, `drop_token`, `submit` | order manager (both ways) |
| circuit breaker | `src/risk/circuit_breaker.py`, rows in `src/db_schema.py` | a `"1"/"0"` row and a `set_at` row per halt | trips, resumes, `is_*_halted`, day baseline | everyone reads it |
| `MMEngine` | `src/main_daemon.py` | the table of quoting tasks, the stop event, the halt it has answered | `discovery_loop`, `risk_loop`, `_neutralize_all_open`, `reconcile_closed_inventory`, `stop`, `run` | all of the above |
| consensus and drift detector | `src/consensus/drift_detector.py` | a bounded history of sampled medians, over feeds that are not in the repository | the sampler, `is_fresh`, `sample_at_offsets` | read by `QuoteManager` |
| discovery | `src/state_machine/discovery.py` | none | filters over markets read from the network | `MMEngine` |
| database layer | `src/db_schema.py` | positions, quotes, inventory, `circuit_state` | inserts, reads, `update_position_status` | breaker, inventory |
| configuration | `src/config_template.py` | constants | | |

The repository has no tests; what it promises is in `src/README.md`, comments,
docstrings and log messages.

### What is hard here, and what makes each component correct

* **QuoteManager.** Every step of a cycle awaits an exchange call; between the
  steps orders fill in part, books move, time passes; any call may fail, or
  succeed and lose its reply; the task may be cancelled in the middle. Correct
  when: no fill is booked twice or lost except where the code knowingly forgets
  an order; an ask never offers more than is held, so no sale is booked short;
  exposure stays under the cap plus a lot; a held leg is never averaged down; an
  ask is repriced with the cost; near the close the quotes come off and the task
  ends.
* **Circuit breaker.** Each trip is two transactions, a forced resume eleven, and
  halts expire at midnights. Correct when a halt is in force exactly as long as
  the breach it answers counts, whatever the crashes, and never revived by an old
  timestamp.
* **The market maker's limits.** The day's P&L is a difference with a baseline
  stored at the first read of the day, per money-world (paper or live). Correct
  when that difference is what the world has realized since, over restarts.
* **MMEngine.** Three coroutines book the same inventory; a halt, a shutdown and
  a closed market each have to win against tasks that were started a moment
  before. Correct when no share is disposed of twice, a lasting halt ends
  quoting, an orderly exit leaves no order, every closed market is settled.
* **Presigned pool and all-or-nothing buys.** A worker signs a ladder order by
  order, each in a thread, while callers pop orders of the old ladder, tokens are
  dropped and evicted, and queue and cache are full; a caller whose order got no
  reply posts another. Correct when an order is handed out at most once and not
  about to expire, a caller never sees parts of two ladders, nothing signed before
  a drop comes back, and a result books no more than was bought.
* **Inventory.** Memory changes before its row is written; the write may fail, the
  process may die, the next one may run in the other money-world over the same
  table, which has one row per market. Correct when a world's shares and realized
  P&L outlive all that, and no world sells what the other bought.
* **Consensus and drift guard.** Feeds fall silent or lie, samples have gaps, the
  history is bounded and searched by bisection. Correct when a minority of wrong
  feeds moves nothing, `is_fresh` means a recent price, and the guard trips on the
  moves of the price and on nothing else.

## 2. Modules

| module | models |
|---|---|
| `QuoteManager` | one live-mode `QuoteManager.run()` task, the inventory half it books into, the order calls it awaits and the exchange behind them |
| `QuoteManagerProofs` | theorems about it: types, shares, control |
| `QuotePricesProofs` | theorems about its prices and costs, on top of those |
| `CircuitBreaker` | the halts of the `circuit_state` table, their trips, resumes and readers, cut off between any two writes |
| `MmBreaker` | extends `CircuitBreaker` with the P&L baseline and the limits of the market maker, and the turn of `risk_loop` that drives them |
| `BreakerProofs` | theorems about both |
| `MMEngine` | the two loops, the life of the quoting tasks, halt, shutdown, crash, restart |
| `MMEngineProofs` | theorems about it |
| `OneShot` | what a store of signed payloads promises: each is handed out at most once, with more than a buffer of its life left |
| `OneShotProofs` | that this promise means what it should |
| `PresignedPool` | the pool, its queue and its worker; implements `OneShot` |
| `FokOrders` | extends `PresignedPool` with the callers of `submit_fok` and `pool.submit`, their retries, and the exchange |
| `PoolProofs` | theorems about both, the refinement among them |
| `Inventory` | `InventoryManager` in both money-worlds over one `mm_inventory` |
| `InventoryProofs` | theorems about it |
| `PriceConsensus` | the sampler over honest, silent and wrong feeds, and the drift guard that reads its history |
| `PriceConsensusProofs` | theorems about it, and about order statistics of finite sets |
| `MC_*` | values of the constants for TLC |

`MMEngine` composes reduced views of the other two components: of a quoting task
only that it bids for one share at a time, polls that bid, drops it and sells what it
holds; of the breaker only whether `is_mm_halted` answers true. Within that view
a task of an open market that waits for no answer may bid or sell next, whatever
its prices and timers say, and a halt may begin or end at any moment, so what holds of the engine does not depend on when a task trades or why
a halt begins or ends. Asks, lots larger than a share and the two legs are not in
the view: `QuoteManager` has them.

### QuoteManager and the code

An action is one awaited call with the synchronous code up to the next `await`.
`pc` is where the task is suspended: `at` the call, `loop` which of the three
loops over the legs `run()` is in, `leg` and `side` the loop variables, `final`
whether this clear-and-flatten is the last (after the close).

| actions | code |
|---|---|
| `Wake` | top of `run()`: phase of the market, quoting or cancel and flatten |
| `Poll`, `PollNothing` | `_check_fills_live`, one `poll_order` per resting side |
| `QuoteLeg` | `_quote_leg` up to its first await: the whole decision (`Decide`) is made here, from book and inventory as they are, and carried out later as `plan` |
| `Cancel`, `CancelNothing` | `_cancel` |
| `Place`, `PlaceFails` | `_record_quote` and `place_resting` |
| `Flatten`, `Sell`, `SellFails`, `Reconcile` | `_flatten`, `_market_sell` and the balance read |
| `Die`, `Respawn` | the task is cancelled or raises in an await; discovery starts the next |
| `Neutralize`, `MarkResolution` (together `RiskLoop`) | `risk_loop` books a leg as sold, or settles the market, under the running task |
| `Fill`, `OrphanFill`, `Terminate`, `MoveBook`, `Age`, `TimePasses` | exchange, poller and clock |

`quote` is what the code remembers of its orders, `ex` what the exchange does;
`orphan` counts resting shares of orders no task remembers; `chain` is what the
account owns, `inv` what is booked. Prices are integers: `Tick` sub-ticks make a
tick; an average cost is rounded down to a sub-tick. `Posted` is the rounding of
`place_resting` (`:372`), applied to what reaches the exchange and not to the
local record. `Faults` lists which failures an instance allows, one name each.

The inventory has a second writer. After a trip `risk_loop` books every held leg as
sold (`main_daemon.py:193`), awaits an alert (`:296`) and only then cancels the tasks
(`:303`); each turn it may also settle a market that Gamma calls closed (`:147`). So
`Neutralize` and `MarkResolution` may happen at any await of the task, any number of
times, and leave its quotes, its plan and its call in progress as they are; `Die` may
follow, at once or many steps later, or never, as when the halt is lifted during the
alert. An ask that was live then finds no shares when it fills, and `apply_sell` caps
what it books.

### CircuitBreaker, MmBreaker and the code

`flag[key]` and `stamp[key]` are the two rows of a halt. `torn` is true in the
executions where the process dies between the first and second write of
a handler (between any two for `force_resume_all`, `ResumeOrder` being the order
of its writes). The readers are `InForce` and the three `*Halted` operators; the
P&L arguments of the global checks come from engines that are not in the
repository, so only which limit they breach is chosen. The halts of one table are
independent rows, which is why one engine is enough for TLC.

`breached` and `attempted` are history: the last breach a finished check
answered, and the last any check saw, since the key was last resumed.

`ReadPnl` is `mm_pnl_today_and_total`, `CheckMm` is `check_mm_and_trip`;
`report` is the pair the loop holds between them, across an awaited summary.
`row[m]` is what the two read of `mm_inventory`: the world a market was last written in
and its realized P&L. `Realize` is any `upsert_mm_inventory`: it writes the row of
a market over, whichever world's it was, so that a world's sum (`Total`) falls or
rises by a whole row when the other world trades its market. What a row is written
with is any P&L within the bound; `Inventory` says which. `earned` is history: what
the rows of a world have gained since its first read of the day.

### MMEngine and the code

`discovery` and `risk` are where the two loops are suspended. `DiscoveryTop` reads
the halt, `Discover` (twice a pass) starts tasks after an awaited discovery;
`RiskTop`, `RiskWake`, `Settle`, `Check`, `Neutralize`, `Neutralized` are a turn
of `risk_loop`; `Signal`, `Stop`, `CancelAll`, `Exit` an orderly shutdown;
`LoopFails` an exception that leaves `gather`; `Crash`, `Restart`, `Booted` the
next process. `Cut` ends coroutines where they are suspended: their orders stay
on the book (`stray`) and calls in threads may still land (`late`).

### PresignedPool, FokOrders and the code

The worker of the pool is suspended in `queue.get()` (`worker = "idle"`) or while
a thread signs one order (`"signing"`): `Handle` is everything from the former to
the first signature, or back, `Sign` one signature with what follows it, the last
one with the replacement of the ladder. `Notify`, `DropToken`, `Hit` and `Miss`
(the two ways out of `pop_matching`) have no await. `job.attached` says whether the
entry the worker looked up is still the pool's: `drop_token` removes the entry, not
the worker's reference. Eviction needs no such case, since only the worker evicts,
and never while it signs. Prices are ticks; at a drift of exactly
`ladder_redrift_ticks` the model takes either answer, as the quotient of two floats
does. Expiry is counted from a wall-clock second rounded down, age from a monotonic
time: both are `now`, `Second` steps to a second.

In `FokOrders` a call is `"direct"` (in `pool.submit`), `"pooled"` or `"fresh"` (in
`submit_fok`), each suspended in one `post_order`. `Answered` is a reply through
`_parse_response`, `Raises` a post that raises, filled or not. `bought`, `paid`,
`lost` and `unsaid` are history: what the exchange did for the call.

### Inventory and the code

An action is one method of `InventoryManager` with its `_persist`: `write_lock` is
never held across an await, so the only thing between the change in memory and the
row is an exception of sqlite (the row stays `behind`). `Restart` ends the process
and starts one of either world, which loads its rows. Shares are in lots, what a
sale or a settlement earns is any of `Gains`; average costs are in `QuoteManager`.
`account` is history: per world and market, what was bought, sold and realized.

### PriceConsensus and the code

`Sample` is one turn of `_sample_loop` that has a quorum; a turn without one
changes nothing. `Deliver` is a tick of a feed, outside the repository: an honest
feed delivers the spot price of the moment, a wrong one anything, and whoever is
silent simply does not act. `SampleAtOffset` is the search of `sample_at_offsets`
with its two neighbours, `AccumulationGuarded` the guard of `synchronizer.py` with
its early returns. `QuoteManager` takes the guard's answer as an input, either way
in every cycle, and so does not depend on any of this.

## 3. Runs

The longest take about three minutes.

| run | question | answer |
|---|---|---|
| `qm_faults` | one leg, every fault, `risk_loop` booking under the task: types, `AsksStayCovered`, `GapExplained`, `EndsSoon` | holds |
| `qm_prices` | three bids over four ticks, partial fills: `ExposureBound`, `AskProfitable`, `CostNeverFalls` | holds |
| `qm_live` | both legs, fairness of the task: `QuietWhenFlattening`, `EndsQuiet`, `FillsNoticed` | holds |
| `breaker` | types, `BreachHonored`, `HaltHasCause`, with crashes | holds |
| `mm` | `MmTypeOK`, `FloorHonored`, `TodayExact`: both worlds over the rows of two markets, restarts, torn writes | holds |
| `mm_daily` | the daily halt is tripped whenever the daily limit is breached | violated |
| `eng_faults` | two markets, calls fail, tasks raise, the process dies: types, `DisposedOnce`, `ShutdownQuiet` | holds |
| `eng_live` | fairness of the loops, which may die: `HaltStopsQuoting`, `ClosedSettled` | holds |
| `eng_neutralize` | the halt's flatten sells | violated |
| `fok` | calls, worker, drops, evictions and lost replies: types, `CacheBounded`, `OneLadder`, `NoPhantomShares`, `CostExplained`, `DropsForGood`, `ImplementsOneShot` | holds |
| `inventory` | both worlds, restarts, failed writes, crashes: types, `BooksKept`, `OwnSharesOnly` | holds |
| `consensus` | four feeds, one wrong: types, `MinorityOutvoted`, `ClosestSample`, `FreshMeansRecent`, `NoFalseAlarm`, `MoveStopsBuying` | holds |

Every property of a passing run has a mutant next to the definition it changes
(a comment starting "Mutant:"): a plausible slip in that code under which the same
run finds the property violated. `TodayExact` has two, one of the baseline rows and one
of the sum.

### Bounds, and why they are enough

* `MaxChain` (shares of a leg the account may own) is 3 or 4 with
  `MinShares = 2` where prices and faults are explored: enough for a bid to fill
  in part, be sold in part, refilled and exited. It bounds what fills, not what is
  quoted.
* `Books` has one to three touches and, but for `qm_faults`, "no price". The price rules compare a
  price with a cost one, two or more ticks away; `ThreeTouches` puts all of them
  in play, and an average of two prices falls between ticks.
* `MaxOrphan` 2 lets orders be lost and fill later, two shares a side.
* `qm_live` has both legs, of one share each: what it asks is about the order
  of the loops over legs and sides, not about quantities.
* `Breaker.cfg`: two ticks a day and a week of one day, four ticks: breaches on
  both sides of a midnight and of a week's end. With `WeekDays = 1` the
  weekly and daily expiries still differ, since one counts midnights and the other
  ticks.
* `MM.cfg`: one midnight, two markets whose rows hold a P&L of 0 or -1, unrealized of
  0 or -1: the permanent limit of 2 is reached by both rows, or by a row and the
  unrealized loss together, recovered from (a row is overwritten or taken over)
  and reached again; the daily limit is 1. Two markets let one world keep a row while
  it loses the other. `MM_daily.cfg` needs a second day after the first halt, one
  market and a wider P&L.
* `ENG_faults.cfg`: two markets, so that one's task may start while the other's is
  cancelled; one share each, since a share is what may be disposed of twice.
  `ENG_live.cfg`: one market (the loops treat markets alike), two shares.
* `FOK.cfg`: two tokens for one entry of the cache and one place in the queue, so
  that both overflow; ladders of two; books that are too dear, too large or too
  small for a leg; four signatures (two ladders) and a clock of three steps, over
  which an order becomes too old to hand out. One call, which may post three
  orders; the theorems are about any number of calls, tokens and rungs.
* `INV.cfg`: one market (rows of different markets never meet), both legs, a share
  of each, sales that lose and earn. `BooksKept` needs a trade in each world and a
  crash after a failed write, which fit. Larger holdings, sold and reconciled in
  parts, are covered by the theorems.
* `CONS.cfg`: three honest feeds and a wrong one with a quorum of three, so that
  any feed may be silent and an even number may be sampled. Five moments and a
  window of four, with a freshness and a tolerance of one: the two ends of the
  window are apart, with a moment between them that belongs to neither. A history
  of four is overrun once and still long enough for the window, as the 14400
  samples of the code (six minutes) are for its 20 seconds.

### Fairness

* `QuoteManager`: `WF(Step)`. The event loop resumes a coroutine whose await is
  answered, and every call it awaits is answered (the client has timeouts, each
  call an error path). Fills, books, the clock, death and respawn have none.
  `qm_live` leaves out polls that never succeed, under which a fill may
  rightly stay unseen, and orders lost or tasks killed, after which there is
  no task to make progress; sales may fail for ever. It also leaves out `risk_loop`'s
  bookings, which only leave the task less to sell; `EndsSoon` and
  `QuietWhenFlattening` are proved with them.
* `MMEngine`: `WF` of each loop and of the shutdown. Quoting tasks, the
  exchange, the operator, crashes and restarts have none. `eng_live` leaves
  out market reads that always fail, under which no market is known to be closed;
  loops may raise, tasks may raise, the process may be killed.

## 4. Proofs

`QuoteManagerProofs` proves, for every value of the constants that meets the four
assumptions next to their declaration (a minimum lot and tick of at least one,
legs among UP and DOWN, books on whole ticks, `NoQuote` not a quote) and every
number of steps:

* `TypeCorrect`: `Spec => []TypeOK`, with it that no order is booked beyond
  what it filled nor filled beyond its size;
* `AsksAreCovered`: `Spec => AsksStayCovered`, an action property: by how much the
  shares held fall short of a planned or resting ask never grows, except when
  `risk_loop` books the leg under it;
* `FlattensQuietly`: `Spec => []QuietWhenFlattening`;
* `DriftIsExplained`: `Spec => GapExplained`, an action property: a step that is
  neither a market sale or its reconciliation, nor the fill of an untracked order,
  nor a cancel or the task's death, nor a booking of `risk_loop` keeps, leg by leg,
  chain minus books minus what the next polls will book. That goes for every poll,
  also the one that finds an order filled or over and drops the quote, but for
  one case: an ask that `risk_loop` left uncovered fills more than is held,
  and its booking is capped. A cancel or a death keeps chain minus books: it loses
  the unpolled fills of the quotes it drops and no more;
* `TaskEndsSoon`: `Spec => EndsSoon`, and the range of the count it is about: once
  the market is closed, every awaited call of the task brings it nearer to its end,
  of which it is at most 73 calls away. This is the part of the liveness property
  `EndsQuiet` that needs no fairness; that the calls are answered is the rest;
* `Invariance`: the inductive invariant they follow from.

The inductive invariant `IInv` is `TypeOK` with
`PlanSound` (what a plan still asks for matches where the task is), `OpenHasRoom` (an order open on the
exchange has room left, so a fill does not overflow it) and `Cleared` (what the
clear loop has passed is gone, so that at an exit or a flatten no ask rests while
shares are being sold). That an ask is covered is no invariant, since `risk_loop` may
empty a leg under it; that it stays as covered as it was is proved step by step,
from an ask being sized by the shares held when it is decided on (`CoverStep`, with
`SizedMoves` for its way to the exchange) to the last of its fills, which lowers the ask and the shares alike or, capped, the ask
further (`ShortfallFalls`).

`QuotePricesProofs` proves the three properties of `qm_prices`, `ExposureIsBounded`
(`Spec => []ExposureBound`), `AsksAreProfitable` (`Spec => []AskProfitable`) and
`CostsNeverFall` (`Spec => CostNeverFalls`), for any books, caps, ticks and lots.
They too need what is known between a decision and its effect. `Priced`
adds to `IInv` that a planned bid is within the cap, of the lot of its price and
no lower than the cost (`BidPlanned`); that a resting bid, with all that it may
still fill, stays within `ExposureBound` and under its own price as an average
(`BidsFit`, which a partial fill keeps: it moves cost from what is due to what is
held); and that a resting ask is a full profit above the cost unless this cycle
has still to look at it (`AsksPriced`, `AskPlanned`). The arithmetic is in lemmas
about the average that `apply_buy` keeps, rounded down, of which `BoughtPosition`
says most.

`BreakerProofs` proves `TypeCorrect`, `BreachesAreHonored`
(`Spec => []BreachHonored`) and `HaltsHaveCauses` (`Spec => []HaltHasCause`), for
any set of engines among the four that `force_resume_all` names, any
length of day and week, with crashes. The invariants behind them are statements
about rows rather than about time: `Answered` (a completed breach that nobody
resumed has its flag set and a time at or after it) and `Caused` (a flag that is
set has an attempt behind it that is at or after its time). `DaysFollow` is the
arithmetic: later times are on later days.

Of `MmBreaker` it proves `MmTypeCorrect`, `FloorIsHonored`
(`MmSpec => []FloorHonored`) and `TodayIsExact` (`MmSpec => TodayExact`), for any
limits, any number of markets, any P&L, any length of day and any number of restarts,
changes of world and cut writes. `PermAnswered` (a breach of the permanent limit that a
finished check saw left its row set) carries the first. `Baselined` carries the
second: the stored day is the day of the world's first read, and unless that read
was cut, baseline plus earnings since is the world's total. It must speak of both
worlds, though only one is read at a time, since a restart may change the world and a
write may take a row from one to the other. That the sum over the rows moves by just
what the one written row does (`TotalMoves`) is proved without induction: two sums that
disagreed would do so first at some market, the least of them, and they agree there
because they do at the one before (`SumChanges`).

`MMEngineProofs` proves, for any set of markets and any faults, `TypeCorrect`
(`Spec => []TypeOK`) and `NothingDisposedTwice` (`Spec => []DisposedOnce`). The
invariant `Books` counts shares: what was bought is held or disposed of
(`Counted`), and a market has at most one share on its way (`Alone`), for which
there is room (`Room`); only a task that is selling has a sale under way
(`SellsOnce`). `ExitIsQuiet` (`Spec => []ShutdownQuiet`) adds `Ended` (once the
tasks are cancelled neither loop is left to start another) and `Swept`. It assumes
that no loop raises (`"loop" \notin Faults`), as its run does: an exception of one
loop leaves `gather` and the shutdown goes on while the other loop still runs.

`OneShotProofs` proves `PromiseMeans`: under `OneShot` no payload is handed out
twice, each before it is `Life - Buffer` old, and none expires in the `Buffer` that
follows. `PoolProofs` proves `PoolImplementsOneShot` (`PoolSpec =>
ImplementsOneShot`), and with it, over the refinement, `PoolUsesOnce`; also
`DropsAreFinal`, the coherence of ladders and the cap of the cache. The invariant
`PoolInv` adds `JobSound` (the ladder being signed is of one size over one ask, and an
attached job has an entry), `Apart` and `BuiltNumbered` (no order is both in the pool and in
the hands of the worker, and all carry numbers already given): with them a new
order is new to the abstract store, and an install or a drop only forgets.
The refinement
holds for any sizes and intervals that meet `AgesAssumption` (an order is too
close to its expiry to be handed out before it reaches `max_age_sec`), as the
defaults 25 and 30 - 5 do. The clock of the model is one: where the wall clock is
stepped, neither the code nor the theorem says when an order expires.

Of `FokOrders` it proves all seven properties of the run `fok`, for any number of calls:
`FokInvariance` shows that the composition implements `PresignedPool`, so that
the theorems about the pool carry over, and that every call satisfies `CallSound`:
before the last answer nothing is booked, and what was bought so far is what no
reply told of; afterwards what was bought is what is booked, what was lost and what a
reply without a size left unsaid, to the share. `FokCacheCapped` takes the set of tokens to be finite.

`InventoryProofs` proves all three properties of `inventory`, for any markets, legs and sizes.
`BooksKept` and `OwnSharesOnly` speak of rows that are loaded later, so the
invariant adds `RowsSound` (what a row would be loaded as is within what its world
bought, unless the row is behind) and `StatesSound`.

`PriceConsensusProofs` proves the six properties of `consensus`, for any finite set
of feeds of which fewer than half a quorum are wrong, any prices, and any size of
the history, tolerance, window and guard.

* `MinorityIsOutvoted` rests on lemmas about sets of feeds: for every k there is a
  k-th lowest price (`NthExists`), half of the feeds are at or below the lower of
  the two middle prices and half at or above the higher (`MedianFacts`), and half of
  a quorum has an honest feed in it (`HonestWitness`). The cardinalities are those
  of the library; the least element of a set of numbers comes from the
  well-foundedness of their order.
* `IInv` adds `HonestTicks` (the last tick of an honest feed is the price of its
  moment), `Apart` (samples are as far apart in time as in the deque) and
  `KeepsNewest` (the deque has every sample taken, or is full and has the newest).
* `SearchFindsClosest`: the samples before a moment are a prefix of the deque
  (`PrefixBefore`), so one of the two neighbours is as close as any sample
  (`NeighboursSuffice`).
* `FreshIsRecent`, `GuardMeansDrift` and `DriftMeansGuard` follow from these, and from
  `RiseGrows` and `FallGrows`: a drift that is measured between medians is at least as
  large between the extreme prices of honest feeds, and the other way round. The last
  one needs `HistoryAssumption`, that the deque reaches further back than the window:
  the code keeps 14400 samples, six minutes, for 20 seconds
  (`drift_detector.py:96`, `synchronizer.py:167`).

Only model-checked: the liveness properties `EndsQuiet`, `FillsNoticed`,
`HaltStopsQuoting` and `ClosedSettled`, since fairness and `ENABLED` are out of the
prover's reach. Every other property of a passing run is a theorem.

## 5. Where the code and its words differ

Two differences are runs, and findings of `PROJECT.json` with their quotations:

1. After its first daily halt the market maker has no daily limit any more until
   `force_resume_all`: an expired halt leaves its row at `"1"`
   (`circuit_breaker.py:211`).
2. In live mode the halt's flatten books sales that are never sent
   (`main_daemon.py:193`).

The others are written into passing properties, as the exceptions they make, or
into the actions:

3. An ask is compared with the size it was posted with, not what is left of it, so
   shares bought after a partial sale are in no ask (`synchronizer.py:393`; the
   comment at `:387` says "re-post ... when we now hold MORE than the resting
   upper_bound covers"). `AsksStayCovered` is the other direction.
4. A quote is cancelled without a last poll: what it filled since is never booked
   and is held to resolution (`synchronizer.py:224`; `:16` says "we do not hold to
   resolution"). `GapExplained` lists it.
5. The halt cancels the tasks and not their orders (`main_daemon.py:303`).
   `GapExplained` lists their fills; `ShutdownQuiet` speaks of the exit only.
   Before that it books every leg to zero while its ask rests (`:193`, `:295`), so that
   the ask's next fill meets the cap of `apply_sell`
   ("no shorting", `memory_manager.py:203`) and shares that were sold are booked twice
   or, bought again meanwhile, taken for others. `AsksStayCovered` and
   `GapExplained` name these steps as exceptions, and say that nothing else
   uncovers an ask or loses a fill.
6. The floor of an ask is compared before it is rounded to a tick
   (`payload_manager.py:372`), so the posted ask may be less than the minimum
   profit above the cost; `AskProfitable` asks that of the recorded price, and of
   the posted one only that it stays above the cost.
7. The date of a new day is committed before its baseline
   (`circuit_breaker.py:177`); `TodayExact` excepts a day whose first read was cut
   there.
8. A restart loads the database and asks neither chain nor exchange
   (`main_daemon.py:308`); `GapExplained` lists the fills of orders nobody tracks.
9. `mm_realized_total` "survives restarts" (`db_schema.py:501`), but the row of a
   market belongs to whichever world wrote it last (`:467`): the P&L and the shares of the
   other world are gone from the total and from its next `load`. `BooksKept`
   excepts them as `overwritten`; the day's P&L jumps by the whole row, which
   `TodayExact` counts as part of what it promises.
10. An order from the pool is posted as it was signed, while the comment at
    `presigned_payload_pool.py:185` says it would be filled in part ("SDK supports
    partial-of-pre-signed via post_order's `fillAmount`"). When it is larger than
    the leg and the reply gives no size, the result understates what was
    bought; when it is dearer, the leg's price is recorded, which
    `payload_manager.py:494-496` calls an upper bound. `CostExplained` excepts
    both, the first by exactly the shares by which the order was larger (`unsaid`);
    a size that the reply gives is booked as it is.
11. `submit_fok` is "all-or-nothing" (`payload_manager.py:234`), but a pooled order
    whose reply is lost is followed by a fresh one (`:275`): the leg may be
    bought twice, over `pool.submit` three times. `CostExplained` counts it as
    `lost`.
12. The refresh of a ladder is announced for one that is "stale, near-empty, or
    drifted" (`presigned_payload_pool.py:162`); it happens only when the ladder is empty or
    drifted, and a drifted book that comes within the minimum interval is dropped.
13. The drift guard answers "0.0 if the feed isn't warm enough to judge"
    (`synchronizer.py:164`), but does not ask `is_fresh`: it compares the last two
    samples a window apart however old they are, and a guard that was up when the
    feeds died stays up. `NoFalseAlarm` is therefore about the last sample, not
    about now; the same holds of `sample_at_offsets`, which counts from its last
    sample and not from "ts_now" (`drift_detector.py:215`).

## 6. Not modelled, and the plan

Left out for good: market discovery (a stateless filter over network answers; the
engine model takes any result), configuration, the dashboards' reads and the
single-row inserts of `db_schema.py`, the process lock (one `flock`), alert texts,
counters of diagnostics. `submit_fak`, `submit_gtc` and `submit_buy_maker` are single calls for engines outside
the repository, without a retry. Nothing in the repository calls `can_buy_leg`,
`update_position_status`, `wipe_mm_state` or the remaining readers of the consensus
(`median_now`, `venue_price`, `recent_move_bps`): there are no sequences of their
calls to take from the code (the P&L ceiling of `update_position_status` is one per
close, `db_schema.py:278`, while the closes are added up).
A wall clock that steps back is in no model; `PriceConsensus` says what its
comment "deque is always time-ordered" rests on.

In order:

1. Paper mode of `QuoteManager` (`_check_fills_paper`).
2. What the engine takes of a quoting task (`MMEngine`'s actions of a task) as an
   abstract specification that `QuoteManager` implements, per market.
3. The parts of `FillsNoticed`, `HaltStopsQuoting` and `ClosedSettled` that need no
   fairness, as bounds on the number of calls in the manner of `EndsSoon`.
