# cli_trader in TLA+

`cli_trader` downloads candles into a local store, breeds trading strategies on
them in a tournament, and trades the winners on a Poloniex spot account, one
process per symbol. Python scripts around it announce fills and watch its
health. This directory holds TLA+ models of its parts with control state worth
checking, the TLC configurations that check them, and TLAPS proofs of the
results that matter most.

Paths below are relative to the repository (`src/trading/...` is in `src/src`).

## 1. The system

| component | state | operations | interacts with |
|---|---|---|---|
| symbol lock (`trading/live_trader.h`, `SymbolLock`) | one file naming a pid | constructor (create, or reclaim a stale file), destructor | processes of the same symbol, the kernel |
| live loop (`trading/live_trader.h`, `LiveTrader`) | `TradingState` in memory, reconcile block, first-cycle flag | `cycle()`: fetch, resolve the order in flight, reconcile, replay, place one order, save | candle store, client, state file, trade log |
| trading client (`trading/poloniex_trading_client.h`) | none between calls | `order()` (POST, read-back), `openOrders()`, `balances()` | the exchange, over a network that loses answers |
| state file (`trading/trading_state.h`) | the file, its `.bak`, its `.tmp` | `save()`, `load()` | live loop, the kernel |
| candle store (`core/candle_store.cpp`) | one `.ctc` file per series | `append()`, `rewrite()`, `compareOverlap()`, reads | bots, the `fetch` command |
| market data (`data/poloniex_source.cpp`) | none between calls | `fetchHistory()`: walk backwards page by page | the exchange, candle store |
| thread pool (`concurrency/thread_pool.h`) | task queue, stop flag | `submit()`, worker loop, destructor | tournament |
| tournament (`evolution/tournament.h`) | population, fitness cache, history maps | evaluate, select, breed, report | thread pool, backtest engine |
| backtest engine (`backtest/engine.cpp`) | cash, units, side, queued signal, queued resize, trade records | `run()` bar by bar, `buyAndHoldStats()` | strategies, tournament, commands |
| strategies (`strategy/`, `strategy/zoo/`) | what four chart families remember of a trade; the market context's cache | `prepare()`, `onBar()` | engine, live loop, candle store |
| indicators (`indicators/`, `math/`) | none | a series in, a series out | strategies |
| fill alerter (`scripts/trade_alerts.py`) | cursor file, lock file | `scan()`, `--reset`, `--dry-run` | trade logs the bots append to, Telegram |
| health notifier (`scripts/notify.py`, `check_pi.py`) | alert state file | `report()` | Telegram |
| rate limiter, HTTP client, Yahoo source, paper client, older optimisers, funding recorder, command bot, units | see `PROJECT.json` | | |

`PROJECT.json` lists every component, those left out with the reason.

### What is hard here

* **Crashes between steps.** An order is saved to the state file, sent, read
  back, booked and saved again; the process may die anywhere in between.
* **Unknown outcomes.** The answer to an order may be lost, the read-back may
  fail, the list of open orders and the balances may not be readable.
* **Shared things without a lock.** Two bots share an account and a candle
  file; an operator runs `fetch`, a scan or a second bot beside the timers.
* **Files that are cut short.** State file, candle file and trade logs are
  written by processes that may be killed in any system call.
* **An exchange with gaps.** Histories have holes, windows are refused, pages
  cannot be read, prices are re-scaled by a split.
* **One decision, three drivers.** Backtest, walk-forward and live ask the same
  strategy, over series of different lengths: the engine once over a whole
  history, a bot at every poll over what is stored by then, after outages,
  restarts and repairs of the store.
* **Threads.** Tasks hold references into a population that its owner may
  destroy.

### What makes each component correct

* lock: at most one live process holds a symbol; what a crash leaves behind
  does not block the next start.
* live loop: one order at a time, never placed twice, never forgotten; the books
  agree with what the bot's orders did; a halt has a cause and lasts as long as
  its cause; the strategy is where a backtest over the same bars would be; the
  account comes to follow the strategy.
* state file: an atomic cell that never forgets.
* candle store: closed bars in order, none made up, and none missing but those a
  fetch asked for and did not get; one price basis, as long as `fetch` had a stored
  bar to compare.
* history walk: no hole without one of three causes; it ends; every bar arrives.
* thread pool and evaluation: every genome is ranked by its own fitness; no
  task outlives what it refers to; every run ends.
* tournament: a strong genome is never forgotten, a control is always shown, no
  family is judged before it was tuned, the elite is carried over.
* strategies: no decision reads the future; a bot that polls, misses polls and
  restarts ends in the position of one uninterrupted pass, and of the engine; a
  gate keeps a rule out of trades and never in one; a trade keeps the stop,
  target and horizon it was opened with.
* market context: a decision that could have seen a bar of the other market has
  seen it.
* notifier: a book that is broken is heard of, whatever message was lost.
* alerter: each fill is announced in order, once unless something broke, and
  one message that is always refused does not hold up the rest.

## 2. Modules

| module | models | notes |
|---|---|---|
| `SymbolLock`, `SymbolLock_proofs` | the lock | one step per system call |
| `Venue` | external: a spot account | orders by client id, IOC matching, coins moved by others |
| `OneOrder` | abstract: what a bot does to its account | refined by `LiveTrader` |
| `LiveTrader`, `LiveTrader_proofs` | loop and client | EXTENDS `Venue`; cut at requests and saves |
| `StateCell` | abstract: an atomic cell | refined by `StateFile` |
| `StateFile`, `Files_proofs` | `save()`, `load()` | one step per system call |
| `CandleStore`, `Fetch_proofs` | the `.ctc` file and its writers | one step per file access |
| `HistoryWalk`, `Fetch_proofs` | `fetchHistory()` | one step per request |
| `ThreadPool` | the pool and its condition variable | one step per critical section or notify |
| `Evaluation`, `Search_proofs` | `evaluatePopulation()` and `run()` on the pool | EXTENDS `ThreadPool` |
| `Tournament`, `Search_proofs` | selection | one step per generation and phase of it |
| `Backtest`, `Search_proofs` | `BacktestEngine::run()`, `buyAndHoldStats()` | a step for the open and one for the close of each bar |
| `Indicators` | `indicators.cpp`, `zoo_common.h` | functions of a series |
| `Strategies` | the position a strategy is asked about; the families that only read indicators | EXTENDS `Indicators` |
| `RegimeStrategies` | measures of a regime, gates, ensembles, factor trend, the two rule languages | EXTENDS `Strategies` |
| `ChartStrategies` | the four families that remember | EXTENDS `RegimeStrategies` |
| `Families`, `Families_proofs` | the registry, its parameters, and the gates of a genome | EXTENDS `ChartStrategies` |
| `Replay`, `Replay_proofs` | bars, polls, repairs; the engine's loop beside them | of any strategy: `OnBar` and `Prepared` are constants, which `MCReplay` takes from `Families` |
| `Recursion` | no code: functions defined by recursion over an interval | instantiated by the proofs, once per recursion |
| `MarketContext`, `Replay_proofs` | the cache of the other market's store | EXTENDS `RegimeStrategies` |
| `Notify` | the health check's alerts | one step per send and save |
| `TradeAlerts`, `Files_proofs` | the alerter, the sleeves that write logs, the operator | one step per message and save |

`MC*` modules are what TLC loads. Where components share no state, one MC module
holds several: `MCFiles` (lock, state file, alerter, notifier), `MCFetch` (store, history
walk), `MCSearch` (evaluation, tournament, backtest), `MCReplay` (replay, market
context). Its variable `part` says of which a behaviour is; the others stay as
they started, and fairness is that of the part. An operator whose comment begins with
"Mistake:" is no part of a specification: it is a plausible bug, kept beside
the definition it would replace, and `PROJECT.json` says which property notices
it.

### Correspondence of state and actions

**SymbolLock.** `lockFile` is the directory entry: who created the file it points
to and the pid in it, so that a process that writes to a file already unlinked
changes nothing on disk. `Create`/`FindExisting`/`LoseRace` are the two `open()`s
of the constructor, `WritePid` its `write()`, `ReadOwner`, `Probe`, `RemoveStale`
are `reclaimIfStale()`, `Release` the destructor. `overlapped` is a
history variable.

**LiveTrader.** `mem` is `state_`, `disk` the state file, `pc` where `cycle()`
stands. `BeginCycle`/`NoData` fetch and load (steps 1-2 of the code's comments),
`AwaitOrder`/`OrderGone`/`ReconcileOwnFill` resolve the order in flight (3),
`ReconcileCycle` reconciles (4), `Backlog`/`Halt`/`Hold`/`PlaceBuy`/`PlaceSell`
replay and decide (5-6), `SendFails` .. `ReadBackFilled` are `order()` and the
booking of its outcome, `EndCycle` the last save (8). The state file is a cell
here; that `save()` makes it one is what `StateFile` shows. A price is reduced
to what it makes dust; a unit of base costs a unit of quote and fees are left
out. The strategy is any deterministic function of the bars: a bar carries the
signals `onBar()` gives on it when flat and when long.

**StateFile.** `main`, `bak`, `tmp` are the three files, each absent, whole with
a version, dirty (in the page cache only) or torn; `onDisk` is what the
directory on the platter says of the path. `Open` .. `Rename` are the calls of
`save()`, `Load` is `load()` with its fall back to the backup. `Fsync` is the `open()`
and `fsync()` whose results the code does not look at: when one fails, the file stays
dirty, `save()` goes on, and a power cut may tear what a start reads. `sync` is the history of that.

**CandleStore.** `recs`, `tail` and `header` are the file; `batch`, `layout` and
`fresh` the locals of a writer, which go with it. `Fetch`, `Compare`, `Publish` are `cmdFetch()` and
`rewrite()`; `Inspect`, `ReadLast`, `Write` are `append()`, each opening the file
anew as the code does; `WriteCut` is a kill inside `pwrite()`. Each fetch asks for an
overlap of its own out of `Overlaps` (0 is `--overlap 0`, and what a bot asks for), and gets all
of what it asked for (`Served`) or some ascending part of it (`Partial`): a walk cut to its
newest pages, a lost row, a refused window, or a Yahoo `--range` that does not reach
the last stored bar. `compareOverlap()` then may find no bar to compare, and `append()`
follows. The histories `missed` and `blind` remember which bars a fetch did not
get, and that `fetch` appended to the file without a comparison.

**HistoryWalk.** The variables are the locals of `fetchHistory()`. Each action is
a request and one way its page can turn out; `Finish` sorts, filters and appends
as the caller does. A request without an answer, or with one that is not JSON, ends the walk with a
message (`RequestFails`, history `gaveUp`); JSON that is no array ends it without one (`NotAnArray`,
history `silenced`).

**ThreadPool, Evaluation.** A worker is at its wait, in it, or in one of the
critical sections of its task. `Lookup` and `Insert` are the two critical
sections of the cache, `Evaluate` runs between them without a lock. The main
thread's actions follow `run()`, its unwinding after a rethrown exception
included.

**Tournament.** A genome is its family and its score. Tuning, selection by X,
elites, immigrants, quotas and the two history maps are as in `run()`.

**Backtest.** `account` is what `run()` keeps of cash, units, side and entry basis,
with the sums of its report; `pending` and `resize` are the queued order and the
queued resize. `AtOpen` fills what the last close queued; `AtClose` asks the
strategy (any signal), executes or queues, decides about a resize, charges
funding, and after the last bar closes by force. `Position`, `Exit`, `Trim` and
`TopUp` are the four places where money moves; `openAt()` and `executeBuy()`, and
`closeAt()` and `executeSell()`, do the same sums and share a definition. `bench` is
the benchmark, computed from the same prices. Money is integral and divisions
round down; the remainder stays in the account. The low-water curve, the
position context that strategies read (an input of theirs) and the statistics
are left out. `history` records, for the properties, the funding, the last
executed signal, and whether the strategy just held.

**Indicators, Strategies, RegimeStrategies, ChartStrategies.** `prepare()` and
`onBar()` of a family are one operator of its parameters, the series, the bar and
the position: it gives what `onBar()` answers on that bar after `prepare()` of that
series. Recursions that the code carries along a series (averages, running sums,
countdowns, clouds) are recursive functions over it, not closed forms, so that a
sum which keeps what left its window shows. A family that writes private members
in `onBar()` takes and returns them as a record. Numbers are fixed-point: prices
are integers, ratios in thousandths, divisions round down. The smallest windows
that `std::max` enforces are left to the caller, so that warm-up, entry and exit
fit on a tape; `replay_vr` uses windows at the code's own floor. Three numeric
procedures are constant operators of the window they read (`Bubble`: the LPPLS
fit; `MemoryOrder`: the spiral; `ModesMove`: the matrix pencil), as are `WalkRange`
(the R/S a random walk would have), `Coin` and `Weekday`; when they are computed,
and how long a result is held, is modelled.

**Replay.** `series` is the store, `live` what the state file keeps of the notional
position: the entry as a timestamp, and the last bar processed. `BarCloses` and
`Repaired` are the store's writers, `Polled` is step 5 of `cycle()`: `prepare()` on the
whole store, the entry's index looked up, every new bar in order. `Step` is a bar
of it, `EngineStep` a bar of `BacktestEngine::run()`, whose orders fill at the next
open. Slippage, fees and sizes are those of `Backtest` and not repeated here.
`Repaired` prepends a bar on the same basis, once. `MaxBarsPerCycle` is 0, the only
value the program sets.

**MarketContext.** A coin's sleeve that runs `factor_trend` reads the store that the
sleeve of BTC appends to. `PollFindsCache`, `PollLooks` and `PollLoads` are `get()`: the
newest bar of the store is read first, the whole store after, and the other
process may append in between. `decided` keeps, of each bar processed, the signal
and how much the store held when the poll began. `setSeries()` (tests) and
`setDataDir()` (once, at the start) are left out; the reference's store never
shrinks.

**Notify.** `alert` is the alert state file, with the age of its last alert instead
of a time; `check` where a run of `check_pi.py` stands. `Check` is the checks and the
load, `SendAlert` the message, `SaveAlert` the save, which does not ask whether the
message arrived. `Text` says that some problems carry a number that changes
("last poll 31 min ago").

**TradeAlerts.** `log` and `tail` are the trade logs, `cursor` the cursor file,
`mem`, `at`, `count`, `sent` the locals of a scan; `chat` is what arrived. `_send()` tries
twice, and the answer of each attempt may be lost after its message has arrived:
`Delivered` is a `True` from either attempt, `SendRefused` a `False`, after none, one
or two messages of the fill have arrived (`Unanswered`); then the fill keeps its
place and a later scan sends it again.

## 3. What the runs check

| run | configuration | shows |
|---|---|---|
| `live` | 3 bars, a capped sleeve, 3 failures of 6 kinds | write-ahead, books, log, cap, and the refinement of `OneOrder` |
| `live_fair` | 2 bars, dust, 2 foreign movements, a failure | the account settles; halts hold, and lift |
| `live_twice` (violation) | read-back and balances both fail | a second buy on top of the first |
| `files`, state file | 4 saves, kills, power cuts, full disk, failed fsyncs | never forgets, reads the newest, refines `StateCell` |
| `files`, lock | four processes, overlapping starts, crashes anywhere | with starts that do not overlap the lock excludes; with overlapping ones it excludes until an owner exits |
| `files`, alerter | two scanners, a book in each of two directories, an operator, 9 kinds of trouble, 2 of them | earned cursor, order, repeats, every fill handled |
| `files`, notifier | a timer's check and one by hand, outages, torn files, failed saves | a break that lasts is heard of |
| `store_race` (violation) | two bots at once | bars out of order |
| `store_blind` (violation) | `fetch --repair` alone, an overlap of two, one fetch that misses bars | two price bases in one file |
| `fetch`, store | a bot and `fetch --repair` in turns, overlaps of none and two, 4 bars, a re-basing, a broken bar, a fetch that misses bars, 2 kills | nothing missing but what a fetch did not get, one basis unless nothing was compared, every bar stored |
| `fetch`, walk | every way a page can fail, without limit; `--max-pages` | no hole without its cause, brakes before the cap, every bar arrives |
| `search`, evaluation | 2 workers, 3 individuals, 2 generations, an evaluation that throws | own fitness, lifetime of the population, every run ends |
| `search`, tournament | 2 families, a control, 2+2 generations, population 6 | a strong genome is remembered, tuning is fair |
| `search`, backtest | 5 bars, 3 prices, sizes 0, 40 and 100 %, fee 5 %, slippage 10 %, funding on shorts, 10 configurations | never borrows, trades explain cash and fees, holding equals the benchmark, a long/short run is always in |
| `replay`, replay | every family and gate of the registry on tapes of 4 to 12 bars, backlogs of two, a repair | live is a replay, the backtest predicts it, nothing is foreseen, frames, gates and horizons hold, running windows are exact |
| `replay`, market context | two histories with their own starts and gaps, 16 pairs, restarts anywhere | a decision that could be fresh is |
| `replay_vr` (violation) | the variance ratio, window 8, lag 2 | a window whose moves persist is measured below 1 |
| `replay_horizon` (violation) | the families with a fixed horizon | live leaves a bar before the backtest |
| `replay_charts` (violation) | the families that remember | a poll makes them forget the trade that is open |

`BacktestPredictsLive` is about the families that ask of a position only whether
there is one. Those with a horizon are `replay_horizon`; a stop at a price differs
by what the fill at the next open differs from the close.
`LiveIsReplay` is about the families that do not remember; the others
are `replay_charts`. `WindowsAreExact` compares running sums, counts and countdowns
with definitions over the window they stand for, on every series the run reaches.

### Bounds, and why they are enough

Every bound is a constant whose comment says `bound:`. Three bars let the live
strategy buy, sell and buy again, which is the longest pattern the loop
distinguishes: whatever it holds at a bar is summarised by the books, the
marker and the attempt. Three failures cover a lost answer, a crash during its
retry and a failed save of the result; the violations known need two. Four
processes on the lock are a dead owner, the two that race for its file and one
that comes after. Two workers are enough for two tasks to meet at every
critical section, three individuals for one to be queued behind both. Four bars
with an overlap of two leave a stored bar the overlap does not reach, which is
where `--repair` could lose history; one fetch that misses bars can leave a hole in the
middle, lose the overlap, or end early. A window of two bars with gaps up to the
limit of empty windows gives every alignment of page and gap. In `files` three
lines are one old fill and two new ones, the fewest that can be reordered; with
two sleeves and one trouble (`NumSleeves = 2`, `MaxFaults = 1`, `MaxFills = 2`,
`MaxPerScan = 1`, one scanner) the same properties hold as well. Five bars on the
backtest are an entry, a resize, a reversal and the fills of each; prices that
halve and double, with friction in whole per cents, make every gap pass a
target and no error hide in rounding. The arithmetic for all prices, bars and
rates is proved.

In `replay` a setup is a family, its parameters and a tape: for each bar the set
of bars the market may print. Closes move by a fifth or more, so that every
threshold is crossed both ways; chart figures are drawn first and branch where
they break. Windows are of two to four bars and tapes long enough for a warm-up,
an entry and an exit: every family takes a position on some tape of each of its
setups and leaves it (but for `control_always_long`, which never does). A backlog of
two is the fewest that can lose an edge. The two histories of the market context start at different times, one misses a bar, and
the coin's store may end before, with or after the other's. One problem whose
text changes is, to the notifier, a book that breaks in ever new ways.

`CHECK_DEADLOCK FALSE` is given where the system may really stop: processes of
the lock exit for good, and a store nobody has news for is at rest.

### Fairness

* `LiveTrader`: weak fairness of the trader (`runLoop()` cycles for ever, systemd
  restarts it) and of matching (an immediate-or-cancel order does not rest).
  None of the failures, of the market, or of other people.
* `CandleStore`: strong fairness of each writer, since `TakeTurns` makes writers
  wait for each other: a timer that fires again and again gets its turn.
* `Notify`: weak fairness of time, of the timer's check, and of the steps of a check
  that has begun; the network, kills and the file are owed nothing.
* `HistoryWalk`, `TradeAlerts`: weak fairness of the poll loop and of the scans
  that follow each poll.
* `Evaluation`: weak fairness of each thread; spurious wake-ups are owed to
  nobody.

`SymbolLock`, `StateFile`, `Tournament`, `Backtest`, `Replay` and `MarketContext` are
checked for safety only.

### Assumptions worth naming

* `TakeTurns = TRUE` in `fetch`: the operator keeps the writers of one file apart.
  Nothing in the code does (`store_race`).
* The venue does not re-scale its history within one fetch: what a fetch gets is on one
  basis (Yahoo, which re-scales, answers in one response). `fetch --repair --force`, which accepts the loss of
  earlier history, is not modelled.
* `OneBasis` is about files that only `fetch` wrote, and not after `fetch` appended with
  nothing to compare (`blind`): a bot never compares, and `store_blind` is the other case.
* `AtomicMatch = TRUE` in the live runs: an IOC order is never seen partially
  filled and still live.
* The `live` and `live_fair` runs leave out unreadable balances and order lists.
  What these do is listed in section 5.
* Rates of `Backtest` are within 0..100 % and slippage leaves a price above zero;
  a run evaluates two bars at least (with fewer it returns at once).
* Stores that `MarketContext` reads have sorted timestamps, which is `Sorted` of
  `CandleStore`, and times past the epoch.
* `Replay`: one basis of prices for the stored history (`OneBasis`), and parameters
  that do not change under a bot that is in a trade.
* Pids are not reused. Time and clock skew are not modelled.

## 4. What is proved

TLAPS checks these for every value of the constants that satisfies the `ASSUME`s
of the modules: any number of processes, bars, failures, workers, families, any
limits and any prices. A hypothesis beyond those is an operator of its own,
named in the theorem, and listed here with what becomes of the theorem without
it. A property that is proved is one that a run checks too; where it is not
inductive, what had to be added says what the code depends on.

**`SymbolLock_proofs`.** `TypeCorrect`; `Exclusion` and `FileIsTheHolders`, while starts do not
overlap. A process about to unlink must be known not to unlink a holder's file:
`LockInv` adds that one process at most is starting, that a held file names its
holder, that the pid being probed is the holder's if there is one, and that
nobody holds what is about to be removed. `RacesExclude` (`ExclusiveWhileNoneExits`) needs
no serial starts: while nobody has died or stopped, every pid that was written is
that of a process which holds the lock, so no probe finds an owner gone and
nobody comes to unlink (`RaceInv`); the exclusive create decides the race.

**`Files_proofs`**, state file. `NeverStartsBlank`, `StartReadsTheNewest`, and `SaveIsAtomic`, the refinement of
`StateCell` step by step. `FileInv` says that what the path points to, on disk too, is
whole once it exists, and relates the versions of the three files to `version` and
`saved`.

**`LiveTrader_proofs`.** What each theorem assumes of the world:

| theorem | property | hypotheses |
|---|---|---|
| `TypeCorrect` | types; an order is sent only under its marker | none |
| `LogTruthful` | `LogIsTruthful` | none: any crash, lost answer, failed save, foreign movement |
| `InFlightDurable` | `InFlightIsDurable` | `WorldIsKind` |
| `BooksMatch` | `BooksMatchVenue` | `WorldIsKind`, `BalancesAreRead` |
| `NeverEntersTwice` | `NoDoubleEntry` | `WorldIsKind`, `AloneAndReconciling` |
| `CapKept` | `CapRespected` | `BalancesAreRead`, reconciling, a cap |
| `ExcessHalts` | `ExcessHaltHolds` | `WorldIsKind`, `BalancesAreRead`, `SavesSucceed`, reconciling |
| `OneOrderAtATime` | `ImplementsOneOrder` | `WorldIsKind`, `AloneAndReconciling`, `DustIsBounded` |

`WorldIsKind` is atomic matching and order lists that can be read; `BalancesAreRead` that
balances can. Each is necessary: section 5 and `live_twice` show what the code
does without. `AloneAndReconciling` is an account nobody else trades and the balances read
in every cycle; `SavesSucceed` that the state file can be written, for a halt that
is not in the file does not outlast a restart; `DustIsBounded` that one amount
is dust at every price or less. The chain of invariants: `DurableInv` (marker in memory
and on disk agree while an order is on its way, and only that order can trade)
carries `BooksInv` (in each place of the cycle, the books plus what the marked order
has filled are what the bot holds), which carries `EntryInv` (an entry is decided on,
and sent, only when the books are next to empty). The refinement maps the
account to `OneOrder`'s and has one step per action: crashes, saves and lost
answers are stutters, a send accepted is `OneOrder`'s order, a match its fill.

**`Fetch_proofs`.** `StoreIsGapless` and `StoreHasOneBasis`, under `TakeTurns`. `StoreInv` says of a writer at
each of its steps that what it found out still holds when it acts on it: the batch
joins the store or lies past bars that are known to be missed, the count it read is the count there is, the overlap it compared
agreed. Nothing is assumed of the overlap or of which bars come back; a file is on one basis because a new bar
was compared, by way of its batch, with a stored one, and where there was none `blind` is set.
Without turns this is what the second writer breaks (`store_race`).
`WalkLeavesNoHole` (`HoleHasItsCause`): a hole comes with a reported failure, `--max-pages`, or an answer that is no
array; that the last one is not reported is in section 5. `WalkInv` adds that a walk holds everything listed above the window it
asks for next, and how far the newest bar below can be; that gaps are shorter
than the run of empty windows is in `WalkInit`. `WalkIsBounded`: a walk makes
no more requests than `Effort` (unusable pages × empty windows × retries) for each bar
between the newest stored and now, whatever the venue does and with no cap at
all. Its invariant `Spent` reads the counters of the loop as the digits of a number
that every request raises: a digit that is reset has carried into the next.
`BrakesEndTheWalk` (`CapIsOnlyABackstop`) follows under `BrakesSuffice`, that this bound is below the cap. It
counts the worst at every bar: with the code's 3, 20 and 5 that is 300 requests a
bar, so that `kSafetyMaxPages` is certain to be out of reach for a poll at most 31 bars
behind. For longer histories it is the venue's ordinary behaviour, not the brakes
alone, that keeps a walk below the cap, and the cap is needed. The run sets it at 80,
above the bound of 72.

**`Files_proofs`**, alerter. `AlertsTypeCorrect`; `CursorEarned` (`CursorIsEarned`), without a hypothesis: the cursor of the file
and of every scan in progress has passed only what arrived or need not be
announced. `RepeatsArePaid` (`RepeatsAreSlips`) and `ArriveInOrder` (`InOrder`) under `LogsAreRead`, that a log which is
there can be opened: one that cannot reads as empty, and is replayed from its
start afterwards (section 5). A lost answer counts whichever attempt it was of, and whether
the retry was delivered or failed. `AccountInv` keeps an account: what a scan from the
cursor file, and from any scan that may still save, would send again is paid for
by the kills, lost answers and failed saves so far. That is an argument about
cardinalities of sets of fills, and `Ahead` and `Repeats` are its two sides.

**`Search_proofs`**, evaluation and tournament. Of `Evaluation`: `EvalTypeCorrect`, `RankedRight` (`RankedByOwnFitness`) and `PopulationOutlives` (`PopulationOutlivesTasks`), for
any number of workers. `EvalInv` says that each task is in one place only, in the queue,
in one worker's hands or done; that what a worker holds between the two critical
sections of the cache is of its own genome; and that the main thread is past a
future only if it is ready. Of `Tournament`: `TournamentTypeCorrect`; `NobodyForgotten` (`NobodyIsForgotten`), by `SearchInv`:
the history is finite, holds the champions, and the table is made from all of it;
`TuningDealsFairly` (`TuningIsFair`) under `TuningHasRoom`: speciation is on, a family keeps one survivor at least,
and the families are no more than the places that elites and immigrants leave (120
- 30 - 18 = 72 by default). It needs `AllFamiliesLive`: a family survives because the
generation before bred it. The lemma `DealtEvenly` is the arithmetic of dealing
places in turn. `Tournament` picks by `Nth` and ranks by `Rankings` so that it can be
reasoned about: the permutations and sorts of the community modules have no
definition that the provers can use.

**`Search_proofs`**, backtest. `TypeCorrect`, `NoLeverage` (`NeverBorrows`) and `BooksBalance` (`TradesExplainCash`). The lemmas go from a
division to a fee, a budget and a fill, then to the four places where money
moves, each of which keeps an account `Sound` (typed, its books balanced) and a
long/flat one `Solvent`. `Inv` adds that a resize is queued in the long/flat loop only.
`InAfterItsFirstSignal` (`AlwaysIn`). `HoldersGetTheBenchmark` (`HoldingIsTheBenchmark`): `Abreast` says, bar by bar and for either fill
timing, that the run and the benchmark have not entered, or have entered with the
same units and cash. `AffordsAUnit`, that the money buys one unit at any price, is a
rounding of the model: units are integers here and doubles in the code.

**`Replay_proofs`.** Of `MarketContext`: `CacheStaysCurrent` (`CacheIsCurrent`), where the end a `get()` saw and the end a cache is
kept under belong to a length the store has had, no larger than what was loaded,
and `EndsTellLengths` (sorted histories of different lengths end differently) makes them
meet; and what the cache is for, `DecisionsStand` (`FreshDecisionsStand`). It rests on lemmas that the trend,
the volatility and the alignment of two series at a bar are functions of the bars up to
it. Of `Replay`:

* `PollsAreOnePass` (`LiveIsReplay`), for any strategy under `StrategiesAreCausal`: what `onBar()` says of a bar is
  what it says when the bars after it are not known. `ReplayInv` says that for
  some bar the saved state is the one that a single pass over the whole store has
  there, and that the time saved of the entry gives its index back. This
  reduces the parity of live and backtest, for all histories, backlogs and
  outages, to a question about a strategy alone.
* `FamiliesAreCausal` answers it for the program: every family of the registry, behind every
  gate, with any parameters (`SetupsAreWellFormed`: they are of the kinds that `registry.h` reads), is
  causal. `FamiliesReplayOnePass` (`LiveIsReplay`) is what follows for a bot that runs one.
* `EnginePredictsBot` (`BacktestPredictsLive`), of a strategy that also asks a position only whether there is
  one (`AskersAskOnly`): the engine holds or has ordered what the bot holds. The
  invariant, `Mirrors`, is of two loops over one series that fill at different bars.
  `FamiliesAskOnly` proves `AskersAskOnly` of the program's twenty-two such families, with any
  parameters and gate, so that `EnginePredictsTheFamilies` assumes nothing of them. `TheFamiliesPlay` says that `OnBar` is
  the one of `Families`, and `FamiliesArePrepared` that `Prepared` is, which is how `MCReplay` instantiates them.
* `NothingEverForeseen` (`NothingIsForeseen`): on every store a bot replays, no decision of any
  family, in a position or out of one, would be another if the later bars were
  not there; the four that remember go through the same trades with the same memory.
* `GatesKeepOut` (`GatesOnlyKeepOut`), by induction over the bars: behind a gate, or waiting for the market to
  confirm, a rule is in a trade only where the rule alone is in one. `GatesAreBeforeRules`: a
  rule behind a gate takes no position, or never leaves on a bar it would enter on.
  It is false without that. A stop at a distance from the entry, and a horizon,
  are counted from an entry that the gate may have put off; `calendar_rule` with one weekday to buy and sell on,
  and `ensemble_rule` with an entry that is no part of its stay, both of which the registry
  lets a genome have (`registry.h:207`, `registry.h:338`), alternate, and a gate changes the phase.
* `TradesKeepTheirFrame` (`TradeKeepsItsFrame`), by induction over the bars of a trade: of `darvas`, `fib_ichimoku` and `patterns`, a trade
  is over on the first close past its target or at its first stop, whatever turns,
  boxes and swings form while it is open. `InFrame` relates what `onBar()` remembers to the entry. `SetupsAreFramed`: a pivot
  has one bar on each side at least, and the levels are integers.
* `WindowsStayExact` (`WindowsAreExact`), with no hypothesis, and `AnyWindowIsExact`, for windows of any length: what
  slides over a series is what the window holds. `SumSlides` and the lemmas around it are about a sum over
  an interval, `CountsExact` about the counts of ordinal patterns.
* `TradesKeepTheirTerm` (`HorizonKept`), of `dip_reversion` and `control_random` behind any gate, through polls and a
  repair, and not assuming causality. Two polls are too few to see why it holds:
  `TimelyInv` says that a bot is never left in a trade whose time is up, and that all
  times of the store are consecutive, also in front. `HorizonsAreNumbers`: the parameter is an
  integer and the gate one of the program's.

**`Families_proofs`, `Recursion`.** `NoFamilyLooksAhead`: two stores that hold the same bars up to one get the
same answer on it, and leave the same memory, from each of the 37 families, by
itself and behind each of the four gates. Its lemmas climb from the indicators, whose values on a
bar are functions of the bars up to it, over the regimes, gates, votes and the two
rule languages to the families. Most indicators are functions defined by
recursion along the series, which is an induction over data. The theorems of the library
that do such an induction take an operator as a parameter, and the provers cannot
instantiate it; a module they can: `Recursion` states for an unknown `Body` that a recursion which looks back is
defined (`Unfolds`) and that two which do the same agree (`AgreeAlong`), proved from the
well-founded order of the naturals, and each recursion of the model is an `INSTANCE`
of it with its own body. The constant operators (`Bubble`, `MemoryOrder`, `ModesMove`) are of a window that ends
at the bar, which is what makes them causal here: that the numerics read no
further is how they are called, and is not examined inside them.

The hypotheses on setups are about every one of `Setups`; `MCReplay` assumes them of its own (`SetupsWellFormed`,
`SetupsAreRuled`, `SetupsAreFramed`), so that TLC evaluates them on the instances that are run.

Every safety invariant that a passing run checks is proved. Only model-checked:
liveness and everything under fairness (`Settles`, `HaltLifts`, `BarsReachTheDisk`, `FillsAreHandled`, `RunsEnd`, `BreakIsHeardOf`), which
needs ENABLED. Types are proved where there are proofs, and not run again.

## 5. Where the code and its documentation disagree

Six are runs of their own, with the lines quoted in `PROJECT.json`: `live_twice`,
`store_race`, and

* `store_blind`: `compareOverlap()` has nothing to say of a batch without a stored bar, and
  `append()` follows (`main.cpp:1121`): with `--overlap 0`, a walk cut to its newest pages, or a
  Yahoo `--range` that begins after the last stored bar, two price bases meet in one
  file, and the overlaps of later fetches agree, against "Re-based history is
  detected" (`README.md:202`). The seam check of `append()` warns of an outlier and goes on;
* `replay_vr`: the variance ratio is divided by the lag twice (`regime.h:54`), so that
  its comment's "VR > 1 means [...] trends persist" (`regime.h:12`) is hardly ever
  measured, and what stands behind it (the gate, `vr_switch`) sees reversal
  where there is trend;
* `replay_horizon`: live counts a holding horizon from the bar of the signal, the
  engine from the bar after it (`live_trader.h:433`);
* `replay_charts`: `prepare()`, which a bot calls at every poll, wipes what `onBar()` of
  `darvas`, `fib_ichimoku`, `patterns` and `pencil_extrap` wrote (`darvas_strategy.h:77`): a
  target, a stop or a swing is lost, against "the same call produces the same
  signal in backtest, walk-forward and live" (`README.md:150`).

The others can be reproduced with the same modules, the configuration's properties
replaced by the one named:

| what happens | code | said at | property | with |
|---|---|---|---|---|
| two starters that read the same dead pid both take the lock: the slower unlinks the file the faster has just created | `live_trader.h:205` | `live_trader.h:109-111` | `MutualExclusion` | `MCFiles.cfg` |
| a creator killed between `open()` and `write()` leaves an empty lock file that blocks every later start | `live_trader.h:196` | `live_trader.h:113-115` | `StaleLockIsReclaimed` | `MCFiles.cfg` |
| the marker is cleared before the balances that should explain its fill are known: the fill halts the bot as foreign coins | `live_trader.h:374` | `live_trader.h:767-773` | `HaltedOnlyByOthers` | `Faults = {"reply", "balances"}` |
| a failed `openOrders()` passes for an empty book | `poloniex_trading_client.h:247` | `live_trader.h:372-373` | `InFlightIsDurable` | `Faults = {"openOrders"}` |
| an order read back partially filled and still live loses its marker | `live_trader.h:784` | `live_trader.h:760-761` | `InFlightIsDurable` | `AtomicMatch = FALSE` |
| a deposit while an unfilled order is unresolved is adopted, and sold | `live_trader.h:571` | `docs/ARCHITECTURE.md:155-156` | `SellsOnlyItsOwn` | `MaxForeign = 1` |
| a shortfall halts for one cycle only: the smaller balance is adopted | `live_trader.h:564` | `live_trader.h:569` | `ShortfallHaltHolds` | `MaxForeign = 1` |
| the first `balances()` fails: a sleeve sizes against uncapped cash | `live_trader.h:517` | `live_trader.h:95-96` | `CapRespected` | `Faults = {"balances"}`, a cap |
| a halted bot that restarts and cannot read its balances trades | `live_trader.h:517` | `live_trader.h:1041-1043` | `ExcessHaltHolds` | `Faults = {"crash", "balances"}` |
| the directory is not forced to disk: a saved state may be lost in a power cut | `trading_state.h:265` | `trading_state.h:253-255` | `SurvivesPowerLoss` | `MCFiles.cfg` |
| a failed `open()` or `fsync()` goes unnoticed: after a power cut the file is torn and the bot refuses to start | `trading_state.h:256-257` | `trading_state.h:253-255` | `NeverForgets` without its exception | `MCFiles.cfg` |
| a bot stores a bar that fails validation | `candle_store.cpp:198` | `live_trader.h:332-334` | `StoredBarsAreSound` | a bot alone, `BadBars = {1}` |
| `fetch --repair` does not rebuild a torn store that agrees | `main.cpp:1120` | `candle_store.cpp:528-529` | `TornIsRepaired` | a fetcher alone, one kill |
| an answer that is JSON but no array ends a walk without a message, and leaves a hole for good | `poloniex_source.cpp:163` | `poloniex_source.h:29-38` | `NoHoleUnreported` | `MaxPages = 0`, `Faults = {"notArray"}` |
| a request that fails between two pages leaves a hole for good | `poloniex_source.cpp:151` | `poloniex_source.h:29-31` | `NoHole` | `MCFetch.cfg` |
| a task that throws leaves the tasks behind it with a destroyed population | `tournament.h:802` | `docs/ARCHITECTURE.md:80` | `NoTaskDangles` | `MCSearch.cfg` |
| nobody reaches X: the next generation is all immigrants | `tournament.h:771` | `tournament.h:678-679` | `NeverWorse` | `MCSearch.cfg`, `Scores = {0, 1, 2}`, `Threshold = 2` |
| elites and immigrants fill a small population and nobody breeds | `tournament.h:700` | `docs/TOURNAMENT.md:86-87` | `SurvivorsReplicate` | `Population = 3` |
| a dry run consumes the fills it prints | `trade_alerts.py:391` | `trade_alerts.py:30-31, 42` | `DryRunConsumesNothing` | `MCFiles.cfg` |
| a log that cannot be opened once is replayed from its start | `trade_alerts.py:160` | `trade_alerts.py:20-26, 32-33` | `InOrder` | `Faults` with `"open"` |
| in long/short mode a run goes flat when a reversal cannot be sized | `engine.cpp:235` | `engine.h:99-103` | `AlwaysIn` without its exception | `MCSearch.cfg` |
| the first fill of a sleeve creates its log and is adopted as history | `trade_alerts.py:375` | `docs/ARCHITECTURE.md:327-336` | an entry is required by `owed` | `EndLine` without it |
| the alert of a stale sleeve says for how many minutes: its text changes at every check, and a message goes out every ten minutes | `notify.py:117`, `check_pi.py:84` | `notify.py:5-8, 104` | `RemindsSparingly` | `MCFiles.cfg` |
| the message of a recovery is lost: nothing repeats it | `notify.py:114` | `notify.py:7` | `RecoveryIsHeardOf` | `Notify` alone, `NotifySpec` |

## 6. What is not modelled, and why

* Floating point. The models round where the code does not; a property that
  depends on the last bit of a double is not stated. `vol_forecast.cpp`, `pencil.cpp`,
  `spiral.cpp`, the LPPLS fit, metrics and fitness are numerics without control
  state: their use is modelled, their values are constants.
* JSON, HTTP and the formats of files, of genomes and of generated rules (their
  parser and printer); signing and clocks; printing.
* Commands that read one component and print. `cmdFetch()` is in `CandleStore` and
  `HistoryWalk`, `cmdRun()`'s settings are constants of `LiveTrader`, `cmdTournament()`'s
  of `Tournament`.
* The rate limiter (one bucket behind one mutex), the paper client (a client that
  never fails), the older optimiser (a loop like `Tournament`'s without families):
  nothing in them interleaves, fails or persists in a way the modelled parts do
  not.
* Experiments and their data. Yahoo's source is one request and its parsing; its
  re-scaled histories are inputs of `CandleStore`.
* The position context that `Backtest` hands to strategies is in `Replay`, the sizes
  and fees of `Replay` in `Backtest`: no run has both at once.

## 7. Plan

Done, in this order: lock; live loop with its abstract specification; state
file with its own; candle store; alerter; pool and evaluation; history walk;
tournament; backtest engine, with its proofs; indicators, strategies, the replay
of both drivers; the market context; the notifier. Then the proofs of section 4,
for every component with a safety property but the notifier, whose one property is
a liveness property.

Next, by weight:

1. `Replay` with the cash side of `Backtest`: parity of sizes, and of stops at a price,
   up to slippage.
2. `RateLimiter`: a bucket polled by several threads; the paper client as a second
   implementation of the client's interface.
