# MarketMind: models, checks and proofs

MarketMind ingests trading content, extracts strategy specifications from it,
backtests them, and runs the approved ones as paper traders. A second program,
FTR, researches strategies of its own and has a paper trader too. What is hard
to get right is the **trader**: a worker that is restarted at any moment, that
drives itself by jobs that re-enqueue themselves, and that turns candles into
signals, orders, fills and positions over several tables, one partly failing
phase after the other. The pipelines around it are hard in other ways: two
engines that must agree bar by bar, jobs that must not repeat paid work, and
research code in which one misplaced shift lets a backtest see the future.

| module | what it is |
| --- | --- |
| `TraderPipeline` | one worker's cycle over candles, signals, orders, fills, positions |
| `TradeBook` | the abstract book of trades that the pipeline implements |
| `TraderPipelineProofs` | theorems about the pipeline, checked by TLAPS |
| `TraderRunner` | the process: boot, RQ registry and queue, tick chains, heartbeat, streaks |
| `TraderRunnerProofs` | theorems about the runner |
| `TraderLedger` | the amounts: sizing, caps, fills with fees and rounding, the snapshot |
| `TraderLedgerProofs` | theorems about the ledger: books, snapshots, loss limits |
| `MarketFeed` | ingestion over two venue adapters, error streaks, backfill, alert delivery |
| `MarketFeedProofs` | theorems about the feed: forming bars, streaks, backfills |
| `SpecSignals` | what a strategy spec means: the translator, and live evaluation on windows |
| `Tier3Simulator` | the bar-by-bar backtest and its replay by live cycles |
| `AnalysisJobs` | the API and the RQ jobs from a request to a stored row |
| `AnalysisJobsProofs` | theorems about the jobs |
| `StrategyVersions` | seeding and transferring versions, approval, the drift verdicts |
| `StrategyProofs` | theorems about the versions, and about backtest and live replay |
| `FtrRecorder` | the recorder of order books |
| `FtrLab` | FTR's candle cache, folds, engines, overlay and gates |
| `FtrTrader` | FTR's deployments and paper trader; extends `FtrLab` |
| `FtrProofs` | theorems about recordings, labels, engines and the gauntlet |
| `FiniteFacts` | lemmas about finite sets, sums and functions over rows |
| `MC...` | one per run family: values of the constants for TLC |

`PROJECT.json` lists components, runs, hazards, findings and theorems, and maps
every definition that models code to the lines it stands for. Check a run with
`tlc -workers 2 -config Runner.cfg MCTraderRunner`, a proof with
`tlapm TraderPipelineProofs.tla`.

## 1. The system

### Components, their state and how they interact

Paths are below `src/`; `T/` is `workers/src/marketmind_workers/trader/`.

| component | state it keeps | operations | talks to |
| --- | --- | --- | --- |
| Runner (`T/runner.py`, `T/jobs.py`, `T/heartbeat.py`) | `trader_bot_runs`; RQ's scheduled registry and queue; failure counters in Redis | boot, clean up orphans, seed ticks, five ticks, mark stopped or crashed | calls every phase below, in order, each behind a `try` |
| Ingestion (`T/ingestion.py`, `T/exchanges*.py`, `T/session_skip.py`) | `trader_candles`, error streaks | fetch and store closed bars, fill gaps, alert on streaks | exchanges over HTTP |
| Signal engine (`T/signal_engine.py`, `T/templates/`) | `trader_signals`, `trader_strategy_state` | evaluate each enabled version on the latest bar, advance its state, disable it when corrupt | reads candles and open positions |
| Risk manager (`T/risk.py`) | `trader_paper_orders`, `trader_risk_events`, the `processed` flag of signals | approve or block every unprocessed signal | reads signals, positions, the latest snapshot |
| Executor (`T/execution.py`) | fills, positions, synthetic stop signals and orders | scan stops, fill pending orders | reads candles |
| Portfolio (`T/portfolio.py`) | `trader_portfolio_snapshots` | rebuild cash from fills, mark positions, track peak and drawdown | feeds the risk manager |
| Alerts (`T/alerts.py`) | `trader_alerts` | deliver undelivered alerts | Telegram |
| Drift (`T/drift.py`) | drift rows | compare live trades with the backtest | reads positions |
| FTR paper trader (`workers/.../ftr/trader/`) | `ftr_*` tables, guards in memory | guards, paper broker, recovery | public exchange |
| FTR research (`workers/.../ftr/`) | recordings and manifests, candle cache, reports | record books, fetch, fit, backtest, judge | Binance, files, `ftr_verdicts` |
| Backtest, overfitting (`workers/.../backtest/`, `overfitting/`) | a persisted simulation per Tier-3 version | evaluate a spec, simulate, walk forward | analysis jobs, signal engine |
| Seed and transfer scripts (`scripts/`) | version rows | pin a version to its evidence, copy rows between databases | the trader |
| Content and analysis jobs (`workers/.../jobs/`) | content, strategies, results | RQ jobs, each check-then-insert | model and download services |
| HTTP API (`api/`) | the operator's switches, rate-limit and cost counters | routes | RQ, PostgreSQL, Redis |
| Shared schemas, web, migrations | none of their own | | |

The parts of the trader interact through PostgreSQL only. A phase opens one
connection; its heartbeat update commits by itself; the first plain `SELECT`
then opens an implicit transaction, and every later `with conn.transaction()`
of the phase is a savepoint in it. So a phase commits as a whole or not at all,
which is *not* what several docstrings say, and is where most of the trader's
surprising behaviour comes from. Between phases anything may happen: the
process may die, the operator may switch a version off, bars may arrive late.

### What is hard here

* **Failure between steps.** A crash between two phases, a phase that raises
  half way, a savepoint that is not a transaction.
* **Work lists read early, used late.** Open positions and pending orders are
  loaded at the start of a pass; the pass changes them.
* **Order.** A stop, an exit order and a new entry of the same slot may all
  fall into one pass; gaps in the feed deliver bars out of order.
* **Chains.** A tick that fails to re-enqueue itself stops trading silently.
* **Time.** One worker runs all ticks, so the detector of stale heartbeats
  races the heartbeat it watches.
* **Long sequences.** The defects below need four or five legal steps of three
  phases; no unit test of the repository goes across phases.

What makes each part correct:

* *pipeline*: one open position per version and symbol; signal, order, fill and
  position in lock-step; exits and closed positions in one-to-one
  correspondence; no look-ahead; an append-only audit trail; stops executed;
  a stateful version's decision and its state in one commit; every signal
  decided.
* *runner*: one running run; chains unbroken; the detector right; dead runs
  settled; the cycle comes round.
* *risk and portfolio*: cash, positions and realised profit balance slot by
  slot; a snapshot adds up; a loss limit cannot be outwaited; caps hold over a
  pass (they do not).
* *feed and alerts*: no forming bar stored; streaks announced once; a backfill
  heals; every alert reaches the operator.
* *specs and engines*: live evaluation equals that of the history; no signal
  looks ahead; live replay equals the backtest; a stop uses past levels only.
* *jobs and API*: work done once; a finished job's answer is usable; what was
  spent is accounted for; the candle cache has no holes.
* *versions and drift*: a version is backed by its own evidence; a bot that
  trades as its backtest did is not called a breach.
* *FTR*: recordings replay; no label leaks; engines agree; only what passed the
  gauntlet is deployed.

## 2. The plan

1. `TraderPipeline`, `TradeBook`, `TraderRunner`, `TraderLedger` and their
   proofs. **Done.**
2. `MarketFeed`, `SpecSignals`, `Tier3Simulator`, `AnalysisJobs`,
   `StrategyVersions`, `FtrRecorder`, `FtrLab`, `FtrTrader`: model-checked.
   **Done.**
3. Proofs of `MarketFeed`, `StrategyVersions`, `FtrRecorder` and
   `AnalysisJobs` with the lemmas about finite sets and sums they share
   (`FiniteFacts`); the ledger's `SnapshotAddsUp` and `LossLimitsHold`; the
   pipeline's `StatefulDecidesOnce` and `ExitNotBeforeEntry`; the runner's
   `DetectorAccurate`; `DeployedPassedGauntlet`, `LeaksOnlyAcrossHoles`,
   `EnginesAgree` and `TrendCausal` of FTR; `StopsFillAtPastLevel`,
   `PhantomMatchesTrade` and `LiveMatchesBacktest` of `Tier3Simulator`;
   `BackfillHeals` of the feed. **Done.** Of the invariants and action
   properties, those of `SpecSignals` and `DriftVerdicts` are left to TLC: see
   the end of section 11.
4. A second worker in `TraderPipeline` (the advisory lock and the unguarded
   `UPDATE`s of the executor), and two timeframes with a rule about which
   position an exit may close, once the code has one.

How the modules fit together:

* `TraderRunner` has the pipeline's phases, each one a success or a failure.
* `TraderLedger` has the same phases and decides what the pipeline leaves free
  (approve or block), and leaves free what the pipeline decides (whether a stop
  is breached, whether the bar of an order is stored).
* `MarketFeed` is the first and last phase of the cycle: its candles are the
  bars that the pipeline's `Ingest` delivers, its dispatcher the runner's
  `Dispatch`.
* `SpecSignals` and `Tier3Simulator` are what a template does when the pipeline
  evaluates a pair; the state they persist is the pipeline's state row.
* `AnalysisJobs` makes the rows that `StrategyVersions` seeds from, and
  `StrategyVersions` the versions that the pipeline loads.
* `FtrTrader` extends `FtrLab`: its verdict rows are that module's reports.
* `TradeBook` is the abstract specification of the pipeline; the backtest is
  the one of the live simulation (`LiveMatchesBacktest`), the evaluation of the
  whole history the one of live evaluation (`SeededMatchesHistory`), and the
  run that knows nothing later the one of the trend portfolio (`TrendCausal`).

## 3. TraderPipeline

### State

`trader_signals` is unique per (version, symbol, timeframe, candle close), an
order per signal, a fill per order, and a position is born of the fill of one
BUY order (migration 0008). So one function from signal keys `[v, s, tf, ts]`
to rows holds all four tables and the `trader_strategy_state` rows as well.

| variable | code |
| --- | --- |
| `db`, `tx` | the committed rows; the rows the running phase sees in its transaction |
| `candles` | `trader_candles`: pair, open time, low |
| `active`, `disabled` | `enabled AND approved_for_paper`, committed; disabled by the running phase |
| `pc`, `todo` | the running phase and the work list it has loaded |
| `now`, `faults` | the clock in bars; a bound on crashes and failures |

### Actions

| action | code |
| --- | --- |
| `Ingest` | `ingest_one_cycle`: any subset of the pairs (or, with `FeedGaps`, of the bars) is delivered |
| `SkipPair`, `Hold`, `EmitSignal`, `DisableVersion` | `evaluate_one_cycle`: one (version, pair) each |
| `ApproveSignal`, `BlockSignal` | `process_pending_signals`: one signal each, oldest first |
| `NoBreach`, `StopClose`, `StopCollides`, `StopsScanned` | stop scan of `process_one_cycle` |
| `KeepWaiting`, `BuyFill`, `BuyCollides`, `ExitFill`, `RejectExit` | its second loop, the pending orders |
| `Commit`, `PhaseFails`, `Crash` | leaving the connection's context, an exception out of the phase, the death of the worker |
| `Operator`, `Tick` | the admin routes; the clock |

### Abstractions

* Prices are a bar's low and an entry's stop, the two that decide a stop-close.
  Take-profit columns exist but nothing executes them. An EXIT's stop is 0.
* Sizes, fees, cash and the caps are left out: approving a BUY is a free choice
  once the version is enabled and approved. Both switches are one bit, as
  every query tests them together.
* A template may hold, or enter when flat and exit when not. A tier-3 version
  follows its own shadow simulation and may say BUY while a position is open.
* `min_bars_needed` is one bar. `Hold` also stands for a signal without a
  positive stop, which is logged and dropped.
* Ties of `candle_close_ts`, `entry_ts` and `intended_fill_ts` are broken
  freely; so is the order of the versions.
* Ingestion writes candles directly; its implicit transaction, venues and error
  streaks are `MarketFeed`'s (section 6).
* The snapshot and alerts phases write none of these tables.
* There is one worker (`docker-compose.yml` runs one), so the advisory lock is
  always free.

### Runs

| run | instance | states | shows |
| --- | --- | --- | --- |
| `two_slots` | 2 versions, 3 ticks, 1 fault | 867,994 | types, lock-step, no look-ahead, exits after entries, one open position, exits match positions, audit trail, stops honoured, the book of trades |
| `tier3` | 1 stateful tier-3 version, gaps in the feed, 4 ticks, 1 fault | 489,548 | decision and state in one commit, no candle decided twice; every signal is decided |
| `viol_wedge` | 1 version, 3 ticks | finding | a breached stop that is never executed |

**Why the bounds are enough.** An entry takes two bars (signal at the close of
bar N, fill at the open of N+1) and a stop or an exit one or two more, so three
ticks hold a trade with its close and four a second entry behind it. Two lows
and one stop give a bar that breaches and one that does not. A second version is
what separates "the slot's position" from "a position". One fault at each place
suffices for atomicity. One symbol is enough: a slot is (version, symbol), and
the second version already gives a second slot. One timeframe, because with two
`ExitNotBeforeEntry` does not hold: an EXIT order of a four-hour pair that waits
for its bar closes whichever one-hour position of the same version and symbol is
open then. No document says which is meant.

**Fairness.** `FairSpec` asks only that the worker keeps taking steps
(`WF_vars(WorkerStep)`): the tick chain re-enqueues itself and Docker restarts
the process. The clock, the operator, failures and crashes owe nothing; faults
are bounded, since a database that always fails decides nothing.

### What the pipeline does against its documentation

* `BreachedStopCloses`: a stop-close inserts a synthetic signal for the
  breaching candle. If the version already has a signal there, the `UNIQUE`
  constraint raises, the phase rolls back, and every later cycle meets the same
  first breach: no order of any version executes again.

Without a run of their own, since they follow from steps the model has:

* `execution.py:741-743` says that a failing operation does not undo another's.
  All are savepoints of one transaction; it does.
* `execution.py:795-798` leaves a BUY that collides with an open position
  PENDING; it fills later *at its old bar*, inside the life of the first trade.

## 4. TraderRunner

### State and actions

| variable | code |
| --- | --- |
| `scheduled`, `queue`, `job` | RQ's ScheduledJobRegistry, its queue, the job at work (RQ itself is external) |
| `runs`, `boots` | `trader_bot_runs`: status and age of the heartbeat; the process's own row |
| `proc`, `unseeded` | where `runner.main` is |
| `fails` | the phase failure counters in Redis |
| `pending` | undelivered rows of `trader_alerts` |
| `clock`, `stall`, `faults`, `hurt` | minutes, how long the worker has been busy, faults, and whether a job of this process has died |

`Boot`, `CleanOrphans`, `Seed`, `StartWork`, `Stop` and `ProcessDies` are the
life of the process; `Enqueue` and `Dequeue` are RQ; `FindRun`,
`PhaseSucceeds`, `PhaseFails`, `DetectStale`, `Summarise`, `EmitAlert`,
`Requeue` and `JobDies` are the steps of a tick.

To keep the state finite without cutting behaviour, scheduled jobs count down
to their boundary, heartbeats age and saturate past the threshold, and the
clock turns round after `Grid` minutes: no time limit is needed and liveness is
checked on real cycles.

Abstractions: due jobs leave the registry in any order; kinds are seeded in any
order; the daily and weekly summaries are one kind; drift has the shape of the
main cycle with one phase; undelivered alerts of one subject are one; the 24 h
expiry of the counters is left out. `ProcessDies` leaves the last process
alive, so that "eventually" is asked of a system that is up.

### Runs

| run | states | shows |
| --- | --- | --- |
| `runner` | 1,403,651 | one running run, unbroken chains, accurate detector, dead runs settled, the cycle goes on |

**Bounds.** Two boots (an orphan and its successor), two faults (a job that
dies and a process that dies, or a streak that reaches `Threshold = 2`), two
phases of which the last delivers alerts, kinds `main` every minute, `summary`
and `stale` every two. `MaxStall = 1` bounds how long the worker may be busy.
`StaleAfter` must exceed twice the stall plus one minute, 3 here, or the
detector, queued in front of a main cycle, calls a living run crashed; the
code's five minutes against ticks that take well below two satisfy it.

**Fairness.** Time passes (`Tick`), Docker restarts (`restart: unless-stopped`,
`docker-compose.yml:127`) and boots finish (`BootStep`), and a worker works
(`WorkStep`). SIGTERM and every fault owe nothing.

### What the runner does against its documentation

* The lookup of the run and the re-enqueue lie outside the `try`
  (`jobs.py:483`, `549`). One exception there ends the main chain; the detector
  then marks the run crashed and inserts a critical alert, but alerts are only
  dispatched by the main cycle, which never comes. `ChainsUnbroken` is therefore
  stated up to the first job that dies (`hurt`).
* The bootstrap (`runner.py:90`) looks at the registry only and does not see a
  due job that waits in the queue, and seeds a second chain of the kind.

## 5. TraderLedger

### State and actions

| variable | code |
| --- | --- |
| `price` | the latest close of each symbol in `trader_candles` |
| `signals`, `orders` | unprocessed signals and PENDING orders, with entry, stop and size |
| `pos` | the OPEN position of each slot (version, symbol): size, entry price, entry fee, stop |
| `net`, `fills` | per slot, the cash moved by its rows of `trader_paper_fills`, and their number |
| `realised` | per slot, the sum of `realised_pnl` of its closed positions |
| `snap` | the latest row of `trader_portfolio_snapshots` |
| `day`, `week` | the anchors of `compute_window_pnl`: equity of the latest snapshot at or before midnight, and Monday's |
| `pc`, `days`, `faults` | the phase, midnights, phases that have raised |

| action | code |
| --- | --- |
| `NewBars` | ingestion and signal engine: new closes and the signals on them |
| `Midnight` | the clock: the anchors move |
| `ApproveBuy`, `ApproveExit`, `Block` | one signal of `process_pending_signals`, through `evaluate_risk` |
| `StopClose` | one position of the stop scan (`_execute_stop_close`) |
| `BuyFill`, `ExitFill`, `RejectExit` | one order of the fill pass |
| `Snapshot` | `compute_and_persist_snapshot` |
| `PhaseOver` | a phase that has finished its work list |

Amounts are exact, as they are in the code (`Decimal` over `NUMERIC` columns
without a scale): prices, fees, notionals and cash are whole numbers of the
quantum 10^-8, sizes whole numbers of lots, and unrounded products of the two
are counted in quanta / `Lot`. `RoundHalfEven`, and the rounding down of
`Size`, are where the code rounds.

Abstractions: the checks of `evaluate_risk` that look at switches or at the age
of the data are a free `Block`; a version is not deleted; fee and slippage are
the same for all versions, the risk per trade is not; the price of a symbol is
that of its latest close whatever the timeframe, as in `risk.py:597-625`; any
position may be stopped and any order wait in any pass, which is what
`TraderPipeline` decides. A phase that raises rolls back as a whole
(`TraderPipeline`, above), so that it is skipped: `NextPhase` may leave phases
out at the price of a fault each. A BUY that meets an open slot raises, so that
its pass is one of those skipped.

### Runs

| run | states | shows |
| --- | --- | --- |
| `ledger` | 10,292,656 | the balance of every slot, snapshots that add up, loss limits that hold |

* `LedgerBalances`: cash (from fills) and profit (from positions) are booked in
  two places; per slot they agree to half a quantum a fill.
* `SnapshotAddsUp`: equity, cash, realised and unrealised profit of a snapshot
  come from three tables; together they are the starting cash.
* `LossLimitsHold`: once the portfolio is flat beyond the drawdown limit, no
  price and no day brings an entry again, since equity and peak stand still.
  This is how the kill switch latches without a row that says so. Beyond the
  daily limit it rests until midnight, beyond the weekly one until Monday.

**Bounds.** Two versions on one symbol share the caps and are two slots. Two
closes, one near the stop (a size that the per-symbol cap refuses) and one far
from it (a size that it lets pass); opens differ from closes, so that fills gap.
Amounts are small and odd (1000 quanta, 10 lots a unit, 1% fee and slippage), so
that every rounding rounds. Caps of 4, 8 and 10% are reached by one stopped
trade or by two. Two pending orders, four fills (two whole trades, of one slot
or of two), one midnight that may be a Monday's, one phase that raises. The
bounds cut only the length of a behaviour: balance and snapshot are sums that
each trade adds to, and the theorem has no such bounds.

No liveness is asked of this module: it is about amounts, not about progress.

### What the risk manager does against its documentation

`risk.py:790-793` says that a chain of approvals accounts for the orders queued
before. The sums are computed anew for each signal, but over OPEN positions, and
what was just approved is a PENDING order: two entries approved in one pass can
exceed the portfolio risk cap together. `ApproveBuy` models what the code does.

## 6. MarketFeed

Ingestion and the alert dispatcher, the two ends of the main cycle that talk to
the outside. `db` is what is committed and `tx` what the running job sees;
`open` says whether an implicit transaction has begun. Redis keys and messages
that Telegram has received are in no transaction.

| action | code |
| --- | --- |
| `StartCycle`, `ClassifyRaises`, `SkipWeekend` | `ingest_one_cycle`: the adapter chosen from the first symbol, pair after pair |
| `FetchFails`, `FetchRaises`, `FetchStores` | one pair: fetch with retries, filter, insert, streak in Redis, gap detection |
| `BackfillStores`, `BackfillFails`, `BackfillRaises` | the one-shot backfill of a pair with a gap |
| `StartDispatch`, `MarkInfo`, `Send`, `EndDispatch` | a pass of `dispatch_pending_alerts` |
| `EmitOther`, `Tick`, `Crash` | alerts of the other phases; the clock; the worker dies |

A venue publishes the bars up to and including the one that is forming, with
holes, by a clock that is `lead` behind the worker's; `FetchRecent`, `OandaSince`
and `FetchSince` are what the adapters ask for, pages included. A call returns
bars or fails after its retries (`FetchWithRetry` over every sequence of
answers). Values of candles, HTTP and texts are left out; the Redis keys' 24 h
expiry too.

| run | states | shows |
| --- | --- | --- |
| `feed` | 215,470 | no forming bar stored, streaks announced once, backfills heal, alerts arrive |

* `NoFormingBar`: the margin of 30 seconds against a leading clock; `cycleNow` is
  read once and used for fetches much later. Rows are never updated, so one
  forming bar would stay wrong for good.
* `StreakAlerted` relates alert rows to a history variable of failures over
  cycles in which anything may fail: failure and recovery alerts of a pair
  alternate, and the last one tells whether its streak is at the threshold. It
  is stated for runs without a fault, since the counter is in Redis and the row
  in PostgreSQL, and a crash between the two loses the alert of a streak (it is
  written at the exact threshold only); and for feeds without a symbol of no
  class behind the second place, since such a symbol raises after other pairs
  have been counted and rolls their alert rows back (found when the proof of
  the first statement failed).
* `BackfillHeals` is about every backfill whose answer is complete.
* `AlertsReachOperator` (liveness): in the end an alert is marked delivered, and
  only if Telegram got it, whatever refusable messages stand before it.

**Bounds.** FX with a crypto pair, equity, and crypto with a symbol of no class:
one feed per way in which the adapter and the weekend can be wrong. Six bars
from a Sunday on, so that a weekend ends inside the run; a window of four
candles, a lookback of three and pages of one, so that a backfill needs more
than one page; threshold 2; one hole and one fault per behaviour.

**Fairness.** The chain of ticks is the runner's (section 4), so a job that has
begun goes on (`WF` of `Ingest` and `Dispatch`) and a dispatch starts again and
again (`SF`, since a crash may disable it in between). Venues, Telegram's
refusals and crashes owe nothing; they are bounded.

What the model shows besides: the gap detection reads the 50 latest closes just
after 200 were fetched, so a hole that a longer outage left lies behind that
window and is neither backfilled nor reported (`ingestion.py:571`, against the
comment at 575-578). And production calls `ingest_one_cycle` without its Redis
client (`jobs.py:497`), which switches the streaks off: the module models the
function as its tests call it.

## 7. SpecSignals and Tier3Simulator

### SpecSignals

`EvalCondition` and `EvalExpression` translate the translator: comparison,
crossing, band (RSI, Bollinger, z-score gates over the series they compute),
rising and falling, latest n bars, hours and weekdays, regimes that latch,
ratchets, conditions on a second timeframe that are aligned by close, filters,
exits. A spec is a tree, a history a function from bars to closes. `EvaluatePair`
is one evaluation of the signal engine: a bounded window, the seeds of the
previous state, the decision, the state to persist; any number of bars (up to
`MaxGap`) passes between two of them. A behaviour picks a spec and a history and
evaluates it live.

| run | states | shows |
| --- | --- | --- |
| `spec` | 231,033 | live evaluation equals that of the history; no signal looks ahead |

`SeededMatchesHistory` is a refinement in the shape of an invariant: after any
sequence of evaluations the next one, on a window, decides and stores what one
over the whole history would. It is stated for the specs whose latches and
ratchets have triggers that a missing value cannot set off (`Memoryless`). For
the rest it is false: in the leading bars of a window a negated trigger is true
and a nested regime takes the inner latch's latest value, against
`translator.py:241-243`. `NoSignalLooksAhead` compares the signals of a history
with those of each of its prefixes.

**Bounds.** Seven bars of three closes, all histories; windows of four candles,
so that a history outgrows its window; two evaluations may be two bars apart.
Seven specs use each kind of node at least once, both timeframes, seeds, time
exits and filters. Rolling windows are two bars.

### Tier3Simulator

The bar-by-bar engine (`iterative.py`) and its live replay
(`iterative_live.py`) over the same functions, as in the code: fills at the next
open with slippage and commission, intrabar stops and targets, five stop and
four target methods, trailing, condition and time exits, gates on prior trades
and prior signals, and the phantom trades that score skipped signals. A
behaviour backtests one history bar by bar and then replays it through live
cycles that end anywhere.

| run | states | shows |
| --- | --- | --- |
| `simulator` | 344,205 | live and backtest agree; a phantom equals the trade; stops use past levels |

* `LiveMatchesBacktest`: at each checkpoint positions, cash, pending orders,
  trades, history and decisions are the backtest's at that bar. The backtest
  looks forward to score a skipped signal, the live cycle steps its phantom:
  signals agree as far as they are known (`KnownAt`).
* `PhantomMatchesTrade`: the second copy of the exit rules gives what the first
  gives, on the signals for which both exist.
* `StopsFillAtPastLevel`: the level a stop fills at is computed anew from the
  bars before it.

All three are theorems too, for every spec, history and rate (`StrategyProofs`).

**Bounds.** Five bars of five shapes (a rally, a flat bar, a crash through any
stop, opens below every stop and above every target): all 3125 histories. Nine
specs have each gate and each stop and target method. Amounts are integers in a
unit that makes every product exact.

The checkpoint's way into the state row and back (`_to_sim`, `_to_tier3`) is not
a step: it numbers the trades anew and drops their prices and profits, which
`TradeHistory` reads nowhere, and keeps every other field.

What the model shows besides: `_completed` stores `exit_index=trade_id`
(`iterative.py:739`), so that the throttle `bars_since_last_at_least` counts
from bar number *trade id*, not from the exit, in both engines alike.

## 8. AnalysisJobs and StrategyVersions

### AnalysisJobs

Request handlers (`Post*`, `Count`, `Expire`, `Enqueue`) interleave with one
worker whose jobs (`Ingest*`, `Transcribe*`, `Extract*`, `Backtest*`,
`Overfitting*`) are split at each commit, file and paid call, so that `JobDies`
can fall between any two. `disk` holds files that are written in place and may
be torn; `paid` and `lost` are history variables of what the model's provider
charged. Texts, audio, prompts and measured results are opaque.

| run | states | shows |
| --- | --- | --- |
| `jobs` | 920,755 | results stored once and usable, spending accounted for, a cache without holes |

* `WorkDoneOnce`: probe-then-insert jobs queued twice by racing handlers store
  one extraction, backtest and analysis. It rests on the single worker and on
  the probes.
* `FinishedJobsUsable`: what a finished job answers is there, whatever died or
  was torn before: a video with its audio, a text with its transcript, a backtest
  with every bar, and a strategy that parses, so that a backtest can be asked of
  it. A refusal has no next stage, and need not even parse: see below.
* `SpendAccounted`: every charge is that of a stored row, of a job that ended
  without one, or of the job at work. The row of a strategy costs what was charged
  for it, the row of a refusal at most one call less; the counter that the cap
  reads has all of the rows'.
* `CacheContiguous`: front and back extensions, pages and outages leave the
  candle file without holes.

**Bounds.** Three requests to two handlers from four databases (empty,
transcribed, extracted, backtested), so that each stage is reached in a few
steps; one video and one article; one killed job, restart or Redis failure; four
windows around the listing and an outage, pages of two bars; two days.

What the model shows besides: `extract.py:458-459` combines the usage of both calls
"so cost tracking reflects the full work we paid for, including retries", but the
handler of the second call (`extract.py:421-438`) swallows every exception, the
client's and the job's timeout among them, and stores a refusal with the usage of
the first. A second call that the provider charged is then on no row and not on
the day's counter (`RetryFails`). A refusal made from an answer that did not
validate is stored with an explanation longer than the schema reads
(`extract.py:579-588`, a `model_copy` without validation), and every later read of
the row raises; a window whose first
or last bars the exchange lacks is served once and raises `NoDataError` on the
next read (`market_data.py:434`), which `jobs/backtest.py` makes at once for its
benchmark; INCR and EXPIRE are two commands, and the TTL is renewed by the next
request only if it is missing.

### StrategyVersions

Research on two databases, `transfer_demos.py` (collect on one connection, write
on another), two interleaved runs of `trader_seed_strategy.py` (each query a
step), the operator's approval, and `drift.py` over the closed paper trades. A
strategy is a rhythm: it trades every `Every[e]` ticks after a warm-up.
Walk-forward windows, baselines and verdicts are computed from that rhythm as
the code computes them, in integers.

| run | states | shows |
| --- | --- | --- |
| `versions` | 2,315,332 | versions backed by their own evidence, transfers keep chains, drift verdicts |

* `VersionsBacked`: a version's backtest ran its extraction and its analysis
  walked that backtest, though they are looked up by separate queries and the
  operator may name ids by hand.
* `TransferKeepsChains`: rows that exist are skipped by id only, so no copied
  row hangs on one that was skipped for another reason.
* `DriftVerdicts`: a bot that trades as its backtest did is not called a breach,
  and one that only loses is not called healthy. It is stated for fair
  baselines: for a spec without state `walk_forward.py:133-134` runs each
  segment as a backtest of its own, whose warm-up holds no trade, and the seed
  divides by the whole span; the baseline is then too low and a healthy bot
  looks over-firing. The same holds when a segment has failed: `_run_segment`
  (`walk_forward.py:262-271`), and for a stateful spec the one continuous run
  (`162-176`), swallow every exception and count no trade, in a span that the seed
  divides by all the same. Nothing in the stored analysis tells such a window from
  a quiet one, so that a bot at parity can be called a breach of the trade
  frequency, which `Fair` therefore leaves out.

**Bounds.** Two extractions (stateful, and plain), two seeds, three rows, two
versions; research in the first tick, flags set on the next two, twelve ticks of
three days in all: a drift window of thirty days is filled and moves. Flags set
during the research would add nothing, since neither seeds nor transfers read
them. Of the two windows of an analysis any may fail.

No liveness is asked of these modules: jobs that fail stay failed, and people
run the scripts.

## 9. FTR

`MCFtr` composes the three modules. FTR's programs share files and verdict rows
and nothing else, so that interleaving them adds no behaviour: each initial
state of the run is one *desk* (recorder, research, hourly model with trader,
trend portfolio with trader).

* `FtrRecorder`: a websocket that loses events and breaks, one snapshot per gap
  over REST (which may be late or fail), sequencers, hourly rotation, manifests,
  SIGTERM and crashes. `RecordingsReplay`: the book can be rebuilt from what a
  run records, and each manifest counts the file beside it.
* `FtrLab`: the candle cache with pages and outages, QA reports, purged folds
  and embargo, the EV gate and holding rules, the overlay's state machine, the
  event-driven and the vectorised engine, gates with plateau and venue rules,
  the sweeps, the trend portfolio's universe, regime and cell selection.
  * `LeaksOnlyAcrossHoles`: the cache has the exchange's holes only, a QA report
    counts all those of the span it names, and a training label reaches
    validation only across one. The file, its manifest and the report are written
    one after the other; after a kill between two of them the report is an older
    run's and knows nothing of the rows that have come since. `viol_leak` shows
    that a label does reach validation across a hole.
  * `EnginesAgree`: same trades, costs and rows, with the overlay and without,
    which only delays or drops trades (an overlay
    without a measurement lets the entry pass).
  * `TrendCausal`: what any cell holds at each close is what a run that knows nothing
    later holds, and the cell is chosen without a look at the holdout.
* `FtrTrader`: deployments, refusals, ticks, decision and snapshot rows, kill
  switch, restarts. `DeployedPassedGauntlet`: behind every id that is deployed
  stands a PASS on an accessible venue, from the sweep to the process, and behind
  that of the hourly model a plateau that was judged and not skipped. It says no
  more than that: a PASS may have G5 or G8 skipped (`gates.py:127-143`), and
  `_has_pass_verdict` looks up the `strategy_id`, which the operator chooses, so
  that a spec of other parameters, another kind or another accessible profile is
  admitted on the row of the cell that passed (`ftr/trader/runner.py:81`, `90-102`).

| run | states | shows |
| --- | --- | --- |
| `ftr` | 2,554,411 | the five properties above |
| `viol_leak` | finding | an outage inside a training slice lets labels look into validation |

**Bounds.** Recorder: one book, three update ids, two hours of two ticks, two
processes, one fault, two events in flight (a gap needs two). Lab: eleven bars
with folds of 3+1+2+3 bars, outages of one or two bars at each place that
matters, two venue profiles (the research-only reference and an accessible one),
three entry levels, horizons of one and two. At the research desk positions are
decided for the accessible profile over series without holes, as they know
neither the times nor the venue beyond what a move is worth at its costs; the
sweep takes both profiles. Trend: two coins, four days of two
bars, every path of two prices.

**Model choices.** Predictions, Sharpe ratios and expected moves are free; what
is modelled is what the code does with them. The research exchange serves every
page; the cross-venue series, which only the QA of the primary one looks at
(`fetch_all.py:94-103`), is left out. The trader's evaluator only holds
(`ftr/trader/runner.py:176-201`): no order is ever placed.

## 10. What the prover has not reached, and what the runs rest on

Runs are exhaustive on their instances; `PROJECT.json` names a mutant for every
property: a plausible bug in the code, as an operator in the module, under which
TLC finds the property violated by the run's own configuration. Every action
and every disjunct of the next-state relations is taken in some passing run.
Time, faults, rows and alerts are bounded in guards; the bounds are named as
constants and commented where they are declared. `CHECK_DEADLOCK FALSE` is
set where a bounded clock or a finished program stops: feed, jobs, versions,
specs, the simulator and FTR.

## 11. The proofs

All theorems hold for every value of the constants under the assumptions that
the modules name: types of the constants, bars and pages of positive length,
intervals that divide the grid, positive threshold, prices and lots, slippage of
at most the price, a start before the end of time, the three of FTR that are
named with its proofs, and in `AnalysisJobs` `DatabasesAssumption`: the databases
a service may start on have typed rows, unique indexes that hold and backtests
over unbroken bars, as an earlier service leaves them. TLC evaluates them on
every run. Three theorems have a hypothesis of their own, because the code keeps
their property under it only: `ExitsFollowEntries` (`Regular`),
`DetectorIsAccurate` (a bound on how long the worker is busy) and `BackfillsHeal`
(no more bars go by than a backfill reads). The configurations of the runs that check those properties
satisfy them.

### TraderPipelineProofs

The invariants are about `db`, but `Commit` publishes `tx`, so `tx` has to be
good before that; and rows of `tx` have to extend those of `db`, or the audit
trail would break at the commit. The inductive invariant is

    IInv == TypeOK /\ Good(db) /\ Good(tx) /\ Grows(db, tx) /\ WorkList /\ Scanned

* `Good(d)`: one open position per slot, lock-step, exits pair up, fills at a
  stored open, and two strengthenings: a signal belongs to a candle closed after
  the origin of time (`Rooted`; so a fill time is never the 0 that stands for no
  fill), and state rows belong to stateful versions (`StateOwned`).
* `Grows(db, tx)`: every row of `tx` is a legal future of its row in `db`.
* `WorkList`: what the phase has loaded and not handled still has the state
  it was loaded for: this is what makes acting on a stale list safe.
* `Scanned`: once the stop scan is over, whatever was open before and is still
  open has no breach. `StopsHonoured` needs it.

The proof has a lemma per action, most of them instances of a few facts about
changing one row or two rows of a good table. Proved: `TypeCorrect`,
`AtMostOneOpen`, `InLockstep`, `ExitsCorrespond`, `NeverLooksAhead`,
`AuditTrailAppendOnly`, `StopsAreHonoured`, and `ImplementsBook`: under the
mapping `open <- OpenPositions(db)`, `closed <- ClosedTrades(db)` every
behaviour of the pipeline is one of `TradeBook`. The key step is that a commit
is a `Settle`: the audit trail gives that no trade vanishes, `Good(tx)` that the
new book is well kept.

Two properties have an invariant of their own on top of `IInv`:

* `DecidedOnce`, for `StatefulDecidesOnce`. `Decided`, of `db` and of `tx`: a
  candle that has been decided has its state row, or its signal is that of a
  stop-close. `Onward(db, tx)`: rows under way neither go back behind the
  committed state of their pair nor decide a candle again. It is inductive
  because a phase that sees a state at or beyond a candle skips it (`Evaluable`)
  and rows only grow; a lemma per phase says what its steps do to a decision
  (`StepOf`). Proved: `StatefulDecideOnce`.
* `Orderly`, for `ExitNotBeforeEntry`, given `Regular`: one timeframe and no
  feed gaps. The bars of a pair are stored without holes (`NoHoles`), so the bar
  an older EXIT waits for is there by the time a younger BUY gets its order.
  `InOrder`, of both sets of rows: signals come with stored candles, every signal
  older than an approved BUY is decided (`Timely`), no EXIT from before an open
  position is on its way (`Past`). `WholeLists`: the work lists leave nothing out,
  and each phase takes the oldest first. Without `Regular` the property fails, as
  section 3 says. Proved: `ExitsFollowEntries`.

### TraderRunnerProofs

    IInv == TypeOK /\ Quiet /\ Booted /\ Settled /\ Seeded /\ ChainsUnbroken

`Quiet`: a process that is not up has no job. `Booted`: rows above `boots` do
not exist. `Settled`: once the boot has cleaned up, only its own row may run.
`Seeded`: during the boot, kinds already looked at are scheduled.
`ChainsUnbroken` is inductive given those, because a kind is scheduled, queued
or at work at every moment between its dequeue and its re-enqueue. Proved:
`RunnerTypeCorrect`, `AtMostOneRunning`, `ChainsHold`.

`DetectorAccurate` needs numbers on top: how old the heartbeat can be at each
place of the main chain. `Fresh`: within `stall` of a touch while the cycle is at
work, within an interval and two busy spells while it is queued, and so that the
age and the time left to a scheduled start make at most an interval and a spell.
`InReach`: a boundary is at most one interval away; `HoldsRun`: a job in its
phases touches the process's own row. The threshold has then to allow for it:
`Every["main"] + 2 * MaxStall <= StaleAfter`. The code's numbers are one minute and
five (`_STALE_HEARTBEAT_THRESHOLD_S`): a living process is safe if its worker is
never busy for more than two minutes at a stretch, which nothing in the code
enforces. Proved: `DetectorIsAccurate`.

### TraderLedgerProofs

    IInv == BookTyped /\ SnapTyped /\ LedgerBalances

`LedgerBalances` is nearly inductive. A sale turns the cost of a position into
realised profit, and the entry fee it nets is the one `OpenCost` carries, so the
two sides move by the same amount but for the rounding of the notional; a
purchase moves cash into cost. What is needed besides is that the rows those
steps read hold amounts (`BookTyped`). The arithmetic rests on `RoundingIsClose`
(a rounded quotient is at most half a unit off, from the law of division) and
`DustAdds`. The sums over slots, of which a snapshot consists, are those of
`FiniteFacts`: `SlotsAddUp` adds the balances of all slots up, by a least set of
slots for which that fails. `LimitsHold` is about a book at rest: no step but a
snapshot writes anything it reads, and a snapshot of a book at rest is the one
before (`SnapTyped` has that equity is never above its peak). Proved:
`BooksBalance`, `SnapshotsAddUp`, `LimitsHold`.

### MarketFeedProofs

    IInv == TypeOK /\ Clocks /\ NothingPartial /\ Committed /\ Opened
            /\ FirstPairCommits /\ (faults = 0 /\ ClassifiedFeed => Counted)
            /\ StreakAlerted

* `NothingPartial`, of `tx` as well as of `db`, is inductive given `Clocks`: the
  instant of a cycle is never ahead of the clock, and a venue leads by no more
  than the margin that `_filter_closed_candles` subtracts.
* `Counted`: without a fault and with a classified feed Redis and the history
  count alike. `FirstPairCommits` covers the one class that may raise, that of
  the second symbol: by then the alert of the first pair is committed.
* `StreakAlerted` is then a matter of what one more row does to the rows of a
  pair (`Appended`): a failure row is appended exactly when the last one is a
  recovery, and the other way round.

`BackfillHeals` needs two more facts (`HealInv`): every stored row had closed by
the clock of its cycle, less the margin (`ClosedRows`), and a pair that is to be
backfilled has a hole (`BackfillHasGap`). A bar missing behind a recent row has
then closed too; it is in the answer, because the pages of either adapter add up
to one stretch of bars as long as the limit (`PagesReadAll`, by the least room in
which they would not), and it passes the filter (`HoleFilled`). The rows that
move out of the window as others move in begin no hole (`LastRowsOfMore`). What
is needed is that the recent rows span no more bars than a backfill may read, 1000
in the code: `BackfillsReach` says so in each state, for all constants, and
`BackfillsHeal` assumes it of all the bars there are. With a limit below that TLC
finds a hole that stays.

Proved: `NeverAFormingBar`, `StreaksAreAlertedOnce`, `BackfillsReach`,
`BackfillsHeal`.

### StrategyProofs

The versions (`StrategyVersions`):

    IInv == TypeOK /\ OneRowPerId /\ Chains /\ Planned /\ Arrived
            /\ SeedBacked /\ VersionsBacked

`OneRowPerId`: an id names one row on either database, so that skipping by id
skips that row. `Chains`: foreign keys hold on both sides. `Planned` and
`Arrived`: what a transfer collected is a closed part of the laptop's rows, and
stays when written. `SeedBacked`: what a seed has read so far is evidence of its
extraction; since rows are never removed, no step of another program spoils it.
Proved: `VersionsAreBacked`, `TransfersKeepChains`.

The two evaluators (`Tier3Simulator`), for every spec that the schema accepts,
every history of bars with natural prices, and all rates:

    SimInv == Given /\ trail and backtest computed from the bars so far
              /\ live computed by single steps from the first bar
              /\ decision that of the live state

The temporal invariant says only what a state was computed from. What the
computation keeps from bar to bar is shown without a step of the system, by an
induction over the bars, as a least bar that breaks it, and by a lemma for each
part of a bar (`FillEntryKeeps`, `FillExitKeeps`, `IntrabarKeeps`,
`DecisionsKeep`), since both evaluators run the same parts:

* `Carried`, `Standing`: the open position, its levels and the exit it waits for
  are those of the phantom of its signal, before and after the bar. A trade that
  closes therefore has the result and the bar of the phantom.
* `LevelsAt`: anchor and stop of a phantom are the greatest of what the bars
  since its entry have contributed. So the stop at which it fills is the one
  recomputed from the bars before.
* `BacktestKeeps` puts these together with the signals, each of which records
  what its phantom comes to (`SignalsRight`).
* `Matched`: a live simulation has the backtest's book, sees of each signal what
  is known by its bar, and carries one phantom, in the state of its walk, for
  each skipped signal whose outcome is open. `LiveMatches` shows that a bar keeps
  this. Gates are asked about outcomes that are known only, which is why seeing
  less of the signals decides nothing else (`GatesMatched`).
* A cycle of many bars is that many single steps, so where cycles end does not
  matter.

`StrategiesAssumption` has the schema's rule that a target in multiples of risk
needs a stop; `NoneAssumption`, that `None` is not a number, a position or an
exit. Proved: `SimInvariant`, `StopsAreOfThePast`, `PhantomsAreTrades`,
`LiveIsBacktest`.

### FtrProofs

The recorder:

    RecInv == RecTypeOK /\ HoursInOrder /\ NoFileKept /\ Positioned /\ Counted
            /\ RecordingsReplay

A run's recording is in pieces: its files, hour by hour, then the buffer.
`Positioned` ties the sequencer to the last row of the last piece that has one,
across the turn of the hour. `HoursInOrder`: a run has no file yet of the hour it
records and no file is ahead of the clock; `NoFileKept`: where an older run left
one, there is something to write over it. Together they say that a rotation
moves the buffer behind all other pieces and leaves what can be replayed as it
was. Proved: `RecordingsCanBeReplayed`.

The gauntlet, under `FtrSpec`, which interleaves `FtrLab` and `FtrTrader` freely
(`MCFtr` follows one desk at a time):

    Gauntlet == LabSound /\ ReportSound /\ RowsSound /\ TradersTyped /\ PassedInv

A PASS on an accessible venue with its plateau skipped must not exist in memory,
in the report, in `ftr_verdicts` and behind what the trader holds. It cannot
arise because a PASS takes a positive ratio and the chosen cell has a neighbour:
the next threshold of the same family and horizon (`NextThreshold`,
`NeighbourExists`). That is where `GridAssumption` is used: `ML_P_MINS` has more
than one entry. Proved: `OnlyPassedIsDeployed`.

The labels, under the same specification: the cache lies before the present and
its holes are outages, and a QA report counts those of its span (`CacheSound`). This rests
on three lemmas. `WalkReadsAll`: the pages from a cursor on add up to all candles
there are, for any page size, by the last cursor where they would not.
`MissingAreCounted`: the gaps between neighbouring candles add up to the missing
bars, by the first candle where they would not. `LabelsOfFold`: without a hole the
row a horizon ahead is a horizon away, which the purge takes off the training
slice and the embargo covers (`FoldAssumption`: no horizon is longer than the
embargo, which is 24 hours, as the longest horizon is). Proved:
`LabelsLookAcrossHolesOnly`.

The engines: what the research holds as positions is a series of 0 and 1, and
what an ablation makes of it is some overlay's (`Decided`). `EnginesSame`, for
any such series: after a row the ledger of the event engine holds the trades of
the vector engine that have ended, the open one, and a cost for every fill, where
the mask of the row tells whether there is an open one. `OverlayDelays`: an entry
or a cancellation is final within its episode. Proved: `TheEnginesAgree`.

The trend grid: the runs in memory are those of the cells over one of `Closes`
(`Charted`). `AssetCausal`, for any histories: cut off after a bar, they lead a
coin through the same states up to that bar, as the regime of a bar is judged by
daily closes before it (`RegimeKnown`). `SelectionSame`: the choice of a cell
takes counts and sums over the selection window, which ends before the holdout
(`TrendAssumption`: the holdout starts within the histories, and these have a
close for every coin and bar). Proved: `TrendLooksBackOnly`.

Both inductions are over functions that a `LET` defines recursively. That such a
function exists is proved once in `FiniteFacts` (`StepsExist`), by the least row
up to which it would not, and that its values have a type (`StepsTyped`).

### AnalysisJobsProofs

    IInv == TypeOK /\ RowsOK /\ CacheOK(market) /\ Working /\ Settled
            /\ Accounted

* `Working`: what the job at work has looked up holds still at its next step,
  because there is one worker and handlers only enqueue.
* `Settled`: a finished answer names a row that is there, with its files; a
  failed one names none. Rows are never removed, so that this stays so.
* `CacheOK`: the candle file has a bar and no hole behind its first one. The
  lemmas `PageIsAll` and `FetchAll` show that the paged fetch returns every bar
  asked for, whatever the page limit, by the least cursor at which it would not;
  `ReadMarket` that extending front and back fits.
* `Accounted`: what was charged is that of a row, lost, or held; a row costs what
  was charged for it, or one call less if it is a refusal; the day's counters
  have the rows' costs but for the one still to be recorded. Both sides are
  sums, one over a sequence that grows and one over days.

Proved: `EachWorkIsDoneOnce`, `FinishedMeansUsable`, `TheCacheIsContiguous`,
`EveryCallIsAccounted`.

### FiniteFacts

Greatest and least elements of finite sets, quotients, functions over rows that
are defined from one row to the next (see FtrProofs), and sums. A sum of the
library is a recursive function over subsets with a `CHOOSE`; that it does not
depend on the order (`SumWithout`), changes as one summand does (`SumChanged`)
and grows as the index set does (`SumExtended`) is an induction over a finite
set. The induction theorems cannot be used here, but a least counterexample
can be had from a well-founded ordering (`MinimalCounterexample`).

### Only model-checked

* Liveness (`SignalsDecided`, `DeadRunSettled`, `CycleGoesOn`,
  `AlertsReachOperator`) and `ENABLED`: outside the prover's reach.
* `DriftVerdicts`: a property of the numbers. Whether a bot in parity stays clear
  of the thresholds depends on the lengths of the windows and on how its trades
  fall into them; for other metrics than those of the run it need not hold.
* `SpecSignals` (`SeededMatchesHistory`, `NoSignalLooksAhead`): recursive over
  the tree of a spec, which puts it out of the prover's reach.

## 12. Not modelled, and why

* **Floating-point statistics**: indicators beyond a rolling mean and rank,
  metrics, deflated Sharpe, Monte Carlo, parameter sweeps, the composite score,
  microstructure features, the OFI study, learned models. They hold no state,
  and their arithmetic has no small instance that TLC could check.
* **The vectorised backtest of specs without state** and the perpetuals research
  scripts: calls into a library over data frames.
* **FTR's entry guards and fills**: the trader keeps peak equity and day counts
  in memory, but `guards.check_entry` and the broker's fills are never called by
  any code under `src/`; the kill switch, which is, is modelled. That guards
  forget on a restart is therefore not a behaviour of the program yet.
* **A second worker**, two timeframes, the 24 h expiry of streak counters: see
  sections 2, 3 and 4.
* **Observability, web front end**: they render what the tables say. The API's
  reading routes and the schemas' validators: no state.
* **Migrations and the other scripts**: run by hand; the constraints of the
  schema are in the models of the tables they guard.
