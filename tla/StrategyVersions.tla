--------------------------- MODULE StrategyVersions ---------------------------
(***************************************************************************)
(* How a researched strategy becomes a paper-traded version, and how the   *)
(* trader judges it afterwards:                                            *)
(*   - research on two databases (the laptop and production): backtests of *)
(*     an extraction and their walk-forward analyses,                      *)
(*   - scripts/transfer_demos.py, which copies the rows of an extraction,  *)
(*   - scripts/trader_seed_strategy.py, which pins an extraction, one of   *)
(*     its backtests and that backtest's analysis into a version row,      *)
(*   - the admin routes that approve, enable and disable a version,        *)
(*   - trader/drift.py, which compares the closed paper trades of a version *)
(*     with the baseline the seed computed.                                *)
(*                                                                         *)
(* A strategy is abstracted to a rhythm: it trades every Every[e] ticks of *)
(* the clock, after a warm-up of Warm[e] bars, and its trades win and lose *)
(* in turn. An extraction stands for its content and transcript rows too.  *)
(* Rational numbers are pairs of integers. Walk-forward instants are in    *)
(* tenths of a bar.                                                        *)
(***************************************************************************)
EXTENDS Integers, FiniteSets, Sequences, FiniteSetsExt

CONSTANTS
    Extractions,    \* ids of extracted_strategies
    Kind,           \* Extractions -> {"refusal", "plain", "stateful", "unseedable"}
    Every,          \* Extractions -> ticks from one trade to the next
    Warm,           \* Extractions -> bars the indicators need before they decide
    Ranges,         \* lengths, in ticks, of the backtests that are asked for
    Timeframes,     \* timeframes an operator seeds with, of "4h", "1h", "15m"
    Names,          \* trader_strategies.name
    Seeders,        \* concurrent runs of the seed script
    NWindows,       \* walk-forward windows that are asked for
    WindowTicks,    \* the 30 days of the drift window, in ticks
    MinPaperTrades, \* _MIN_PAPER_TRADES
    Drawdowns,      \* portfolio drawdowns, in percent, that snapshots may show
    MaxDay,         \* bound: the last tick
    ResearchDays,   \* bound: research, transfers and seeding begin before this tick
    FlagDays,       \* bound: the ticks in which the operator sets flags
    MaxFailed,      \* bound: windows of an analysis whose own run raises
    MaxRows,        \* bound: backtest and analysis rows of both databases
    MaxVersions     \* bound: version rows

VARIABLES
    db,         \* the research tables of the two databases
    nextId,     \* the next row id, in the order of created_at
    transfer,   \* a run of transfer_demos.py
    seed,       \* the runs of trader_seed_strategy.py
    strategies, \* names in trader_strategies
    versions,   \* rows of trader_strategy_versions
    bots,       \* per version: how it trades, since when, and its closed trades
    day,        \* the clock
    drawdown,   \* drawdown_pct of the latest portfolio snapshot
    drift,      \* per version: its latest drift row, if any
    alerts      \* breach alerts written, as pairs of a version and a tick

research == <<db, nextId>>
trading  == <<strategies, versions, bots>>
judged   == <<drift, alerts>>
vars == <<db, nextId, transfer, seed, strategies, versions, bots, day, drawdown, drift, alerts>>

Sites == {"laptop", "prod"}
None  == 0

(***************************************************************************)
(* A run of the backtest engine over a range of ticks, in bars.            *)
(***************************************************************************)
BarsPerTick == 18              \* 4h bars; a tick is three days
Total(r)    == r * BarsPerTick

\* Entry bars of one run of the engine over [lo, hi), in tenths of a bar:
\* a run knows no bar before its start, so nothing is decided in the warm-up.
Trades(e, lo, hi) ==
    LET apart == Every[e] * BarsPerTick
    IN {t \in {k * apart : k \in 0 .. (hi \div (10 * apart))} :
            10 * t >= lo + 10 * Warm[e] /\ 10 * t < hi}

Wins(n) == (n + 1) \div 2      \* the first trade wins, the next one loses
WinReturn  == 3
LossReturn == -1
ReturnSum(n, wins) == WinReturn * wins + LossReturn * (n - wins)

MaxDrawdown == 10               \* of every backtest, in percent

\* BacktestMetrics of the single pass.
Metrics == [e \in Extractions, r \in Ranges |->
               LET n == Cardinality(Trades(e, 0, 10 * Total(r))) IN [trades |-> n, wins |-> Wins(n)]]

(***************************************************************************)
(* The walk-forward analysis.                                              *)
(***************************************************************************)
MinBarsPerHalf == 20
TrainTenths    == 7

\* Windows too short for MinBarsPerHalf bars in the smaller half are not made.
WindowCount(r) ==
    Min({NWindows, Max({1, (Total(r) * (10 - TrainTenths)) \div (10 * MinBarsPerHalf)})})

\* The out-of-sample part of window i, as tenths of a bar.
OosStart(r, i) == LET len == (10 * Total(r)) \div WindowCount(r)
                  IN len * i + (len * TrainTenths) \div 10
OosEnd(r, i)   == ((10 * Total(r)) \div WindowCount(r)) * (i + 1)

\* The slice of the one continuous run of a stateful spec; the last one is open.
SliceTrades(e, r, i) ==
    {t \in Trades(e, 0, 10 * Total(r)) :
        10 * t >= OosStart(r, i) /\ (10 * t < OosEnd(r, i) \/ i = WindowCount(r) - 1)}

OosTrades(e, r, i) ==
    IF Kind[e] = "stateful" THEN SliceTrades(e, r, i)
    ELSE Trades(e, OosStart(r, i), OosEnd(r, i))

Windows(r) == 0 .. (WindowCount(r) - 1)

\* What the engine finds in each window out of sample, if no run of it raises.
OutOfSample == [e \in Extractions, r \in Ranges |->
                   [i \in Windows(r) |-> Cardinality(OosTrades(e, r, i))]]

\* Windows whose run may raise: each has one of its own, a stateful spec one for all.
Failures(e, r) ==
    IF Kind[e] = "stateful" THEN {{}, Windows(r)}
    ELSE {f \in SUBSET Windows(r) : Cardinality(f) <= MaxFailed}

\* What the analysis keeps of each window: the out-of-sample trades and span.
\* An error of the engine is swallowed: no trade, in a span that stays.
WalkForward(e, r, failed) ==
    [i \in Windows(r) |->
        [trades |-> IF i \in failed THEN 0 ELSE OutOfSample[e, r][i],
         span   |-> OosEnd(r, i) - OosStart(r, i)]]
-----------------------------------------------------------------------------
(***************************************************************************)
(* Research and the transfer to production.                                *)
(***************************************************************************)
Researching == day < ResearchDays /\ nextId <= MaxRows

\* A backtest job stores its result, once per extraction and range.
Backtest(s, e, r) ==
    /\ Researching
    /\ e \in db[s].exts /\ Kind[e] # "refusal"
    /\ ~\E b \in db[s].bts : b.ext = e /\ b.range = r
    /\ db' = [db EXCEPT ![s].bts = @ \cup {[id |-> nextId, ext |-> e, range |-> r]}]
    /\ nextId' = nextId + 1
    /\ UNCHANGED <<transfer, seed, strategies, versions, bots, day, drawdown, drift, alerts>>

\* An overfitting job stores its analysis, once per backtest, whatever failed.
Analyse(s, b, failed) ==
    /\ Researching
    /\ b \in db[s].bts
    /\ ~\E a \in db[s].ans : a.bt = b.id
    /\ db' = [db EXCEPT ![s].ans = @ \cup {[id |-> nextId, bt |-> b.id, failed |-> failed]}]
    /\ nextId' = nextId + 1
    /\ UNCHANGED <<transfer, seed, strategies, versions, bots, day, drawdown, drift, alerts>>

NoTransfer == [pc |-> "idle", exts |-> {}, bts |-> {}, ans |-> {}]

\* The rows that hang on the extractions, read along the foreign keys.
Plan(es) ==
    LET bts == {b \in db["laptop"].bts : b.ext \in es}
    IN [pc |-> "plan", exts |-> es, bts |-> bts,
        ans |-> {a \in db["laptop"].ans : \E b \in bts : a.bt = b.id}]

\* transfer_demos.py reads its plan: columns that differ or an id that is not
\* in the source end it with nothing written, as a dry run does.
TransferCollect(es, sameColumns, dryRun) ==
    /\ transfer.pc # "plan" /\ day < ResearchDays
    /\ transfer' = IF ~sameColumns \/ ~(es \subseteq db["laptop"].exts) \/ dryRun
                   THEN NoTransfer
                   ELSE Plan(es)
    /\ UNCHANGED <<db, nextId, seed, strategies, versions, bots, day, drawdown, drift, alerts>>

\* ON CONFLICT (id) DO NOTHING: a row that is there already is skipped; every
\* other unique index still raises.
\* Mutant of NewRows: DO NOTHING without a target skips a conflict on any index.
SameKey(x, y) == IF "ext" \in DOMAIN x THEN x.ext = y.ext /\ x.range = y.range ELSE x.bt = y.bt
NewRowsOnAnyIndex(rows, table) == {x \in rows : ~\E y \in table : y.id = x.id \/ SameKey(x, y)}
NewRows(rows, table) == {x \in rows : ~\E y \in table : y.id = x.id}
Collides(plan) ==
    \/ \E b \in NewRows(plan.bts, db["prod"].bts), c \in db["prod"].bts :
          b.ext = c.ext /\ b.range = c.range
    \/ \E a \in NewRows(plan.ans, db["prod"].ans), c \in db["prod"].ans : a.bt = c.bt

Inserted(plan) == [exts |-> db["prod"].exts \cup plan.exts,
                   bts  |-> db["prod"].bts \cup NewRows(plan.bts, db["prod"].bts),
                   ans  |-> db["prod"].ans \cup NewRows(plan.ans, db["prod"].ans)]

\* One transaction in the order of the foreign keys.
TransferWrite ==
    /\ transfer.pc = "plan"
    /\ IF Collides(transfer)
       THEN transfer' = NoTransfer /\ UNCHANGED db
       ELSE transfer' = [transfer EXCEPT !.pc = "done"] /\ db' = [db EXCEPT !["prod"] = Inserted(transfer)]
    /\ UNCHANGED <<nextId, seed, strategies, versions, bots, day, drawdown, drift, alerts>>
-----------------------------------------------------------------------------
(***************************************************************************)
(* The seed script: one READ COMMITTED transaction, a step per query.      *)
(***************************************************************************)
NoSeed == [pc |-> "idle"]
\* An error leaves nothing behind: the script exits and the operator runs it again.
End(s)  == seed' = [seed EXCEPT ![s] = NoSeed]
Step(s, with) == seed' = [seed EXCEPT ![s] = with]
idleSeed == <<db, nextId, transfer, strategies, versions, bots, day, drawdown, drift, alerts>>

\* A stateful spec takes no --template, and without one the generic template must
\* be able to run the spec (long, one timeframe, with a stop).
Routable(e, cli) == Kind[e] \notin {"refusal", IF cli THEN "stateful" ELSE "unseedable"}

SeedStart(s, e, cli, name, tf) ==
    /\ seed[s] = NoSeed /\ day < ResearchDays
    /\ IF e \notin db["prod"].exts \/ ~Routable(e, cli)
       THEN End(s)
       ELSE Step(s, [pc |-> "backtest", ext |-> e, name |-> name, tf |-> tf])
    /\ UNCHANGED idleSeed

Latest(rows) == {x \in rows : \A y \in rows : y.id <= x.id}

\* Mutant of BacktestFor: a pinned backtest is not matched with the extraction.
BacktestUnchecked(e, pick) == {b \in db["prod"].bts : b.id = pick}
\* The newest backtest of the extraction, or the pinned one if it is its own.
BacktestFor(e, pick) ==
    LET own == {b \in db["prod"].bts : b.ext = e}
    IN IF pick = None THEN Latest(own) ELSE {b \in own : b.id = pick}

SeedBacktest(s, pick) ==
    LET me == seed[s] IN
    /\ me.pc = "backtest"
    /\ LET found == BacktestFor(me.ext, pick)
       IN IF found = {} THEN End(s)
          ELSE Step(s, [pc |-> "analysis", ext |-> me.ext, name |-> me.name, tf |-> me.tf,
                        bt |-> CHOOSE b \in found : TRUE])
    /\ UNCHANGED idleSeed

\* The analysis of the chosen backtest; a pinned one must be its own.
AnalysisFor(b, pick) ==
    {a \in db["prod"].ans : a.bt = b.id /\ pick \in {None, a.id}}

\* A dry run ends here, after it printed the row it would insert.
SeedAnalysis(s, pick, dryRun) ==
    LET me == seed[s] IN
    /\ me.pc = "analysis"
    /\ LET found == AnalysisFor(me.bt, pick)
       IN IF found = {} \/ dryRun THEN End(s)
          ELSE Step(s, [pc |-> "version", ext |-> me.ext, name |-> me.name, tf |-> me.tf,
                        bt |-> me.bt, an |-> CHOOSE a \in found : TRUE])
    /\ UNCHANGED idleSeed

VersionsOf(name) == {versions[i].version : i \in {j \in DOMAIN versions : versions[j].name = name}}

\* The strategy row is found or made, and the next version number read.
SeedVersion(s) ==
    LET me == seed[s] IN
    /\ me.pc = "version"
    /\ Step(s, [pc |-> "insert", ext |-> me.ext, name |-> me.name, tf |-> me.tf,
                bt |-> me.bt, an |-> me.an, fresh |-> me.name \notin strategies,
                version |-> Max(VersionsOf(me.name) \cup {0}) + 1])
    /\ UNCHANGED idleSeed

\* The insert and the commit. A run that committed in between made the same name
\* or the same version: a unique index raises, and nothing of this run is kept.
SeedInsert(s, conduct) ==
    LET me == seed[s] IN
    /\ me.pc = "insert" /\ Len(versions) < MaxVersions
    /\ IF (me.fresh /\ me.name \in strategies) \/ me.version \in VersionsOf(me.name)
       THEN End(s) /\ UNCHANGED <<trading, drift>>
       ELSE /\ End(s)
            /\ strategies' = strategies \cup {me.name}
            /\ versions' = Append(versions,
                  [name |-> me.name, version |-> me.version, ext |-> me.ext,
                   bt |-> me.bt, an |-> me.an, tf |-> me.tf, approved |-> FALSE, enabled |-> TRUE])
            /\ bots' = Append(bots, [conduct |-> conduct, since |-> -1, closed |-> {}])
            /\ drift' = Append(drift, [day |-> -1])
    /\ UNCHANGED <<db, nextId, transfer, day, drawdown, alerts>>
-----------------------------------------------------------------------------
(***************************************************************************)
(* The admin routes and the paper trader.                                  *)
(***************************************************************************)
Active(v) == versions[v].approved /\ versions[v].enabled
idleAdmin == <<db, nextId, transfer, seed, strategies, day, drawdown, drift, alerts>>

\* The flags are the only columns the immutability trigger lets change. A bot
\* starts to trade when its version is approved and enabled.
SetFlags(v, approved, enabled) ==
    /\ day \in FlagDays
    /\ versions' = [versions EXCEPT ![v].approved = approved, ![v].enabled = enabled]
    /\ bots' = [bots EXCEPT ![v].since =
                    IF ~(approved /\ enabled) THEN -1 ELSE IF Active(v) THEN @ ELSE day]
    /\ UNCHANGED idleAdmin

ApprovePaper(v) == ~versions[v].approved /\ SetFlags(v, TRUE, versions[v].enabled)
Enable(v)       == ~versions[v].enabled /\ SetFlags(v, versions[v].approved, TRUE)
Disable(v)      == versions[v].enabled /\ SetFlags(v, versions[v].approved, FALSE)

-----------------------------------------------------------------------------
(***************************************************************************)
(* The drift analysis.                                                     *)
(***************************************************************************)
\* sqrt_n_scaling_factor: the square root of the bars per day over those of 4h.
Factor(tf) == CASE tf = "1h" -> 2 [] tf = "15m" -> 4 [] OTHER -> 1

\* The seed's metrics: walk-forward trades per span, single-pass outcome.
WindowsOf(v) ==
    LET b == CHOOSE b \in db["prod"].bts : b.id = versions[v].an.bt
    IN WalkForward(b.ext, b.range, versions[v].an.failed)

\* Mutant of OosSpan: the frequency is taken over the whole backtest.
WholeSpan(v, w) == 10 * Total(versions[v].bt.range)
OosSpan(v, w)   == FoldSet(LAMBDA i, n : n + w[i].span, 0, DOMAIN w)
Baseline(v) ==
    LET w == WindowsOf(v)
        m == Metrics[versions[v].bt.ext, versions[v].bt.range]
    IN [trades |-> m.trades, wins |-> m.wins,
        oosTrades |-> FoldSet(LAMBDA i, n : n + w[i].trades, 0, DOMAIN w), oosSpan |-> OosSpan(v, w)]

\* The closed trades in the window, and their outcome.
PaperMetrics(v) ==
    LET in == {c \in bots[v].closed : c.day >= day - WindowTicks}
        w  == Cardinality({c \in in : c.win})
    IN [trades |-> Cardinality(in), wins |-> w]

Magnitude(n) == IF n < 0 THEN -n ELSE n
\* |p/pn - b/bn| over |b/bn|, or over the epsilon of 1/10000 for a zero baseline.
TwoSided(p, pn, b, bn) ==
    IF b = 0 THEN <<10000 * Magnitude(p), pn>>
    ELSE <<Magnitude(p * bn - b * pn), pn * Magnitude(b)>>

\* |ratio - 1| of the trades per tick; the ratio is 0 when the baseline is.
FreqDeviation(p, base) ==
    IF base.oosTrades = 0 THEN <<1, 1>>
    ELSE TwoSided(p.trades, WindowTicks, base.oosTrades * 10 * BarsPerTick, base.oosSpan)

Deviations(p, base) ==
    {FreqDeviation(p, base),
     <<Max({0, drawdown - MaxDrawdown}), MaxDrawdown>>,
     TwoSided(p.wins, p.trades, base.wins, base.trades),
     TwoSided(ReturnSum(p.trades, p.wins), p.trades, ReturnSum(base.trades, base.wins), base.trades)}

Exceeds(dev, percent) == 100 * dev[1] > percent * dev[2]
DrawdownBreach(dd, tf) == 100 * dd > 150 * Factor(tf) * MaxDrawdown

ClassifyHealth(v, p, base) ==
    LET tf == versions[v].tf IN
    LET devs == Deviations(p, base) IN
    IF DrawdownBreach(drawdown, tf) \/ \E d \in devs : Exceeds(d, 60 * Factor(tf)) THEN "breach"
    ELSE IF \E d \in devs : Exceeds(d, 30 * Factor(tf)) THEN "watch"
    ELSE "healthy"

\* A version with too few trades is skipped and its last row stays the latest.
Evaluated == {v \in DOMAIN versions : Active(v) /\ PaperMetrics(v).trades >= MinPaperTrades}
Row(v) == [day |-> day, dd |-> drawdown, health |-> ClassifyHealth(v, PaperMetrics(v), Baseline(v))]

\* One pass: the rows and the alerts of all versions are committed at its end,
\* or none of them is when it dies.
DriftPass ==
    LET pass == Evaluated IN
    /\ pass # {}
    /\ drift' = [v \in DOMAIN drift |-> IF v \in pass THEN Row(v) ELSE drift[v]]
    /\ alerts' = alerts \cup {v \in pass : drift'[v].health = "breach"}
    /\ UNCHANGED <<db, nextId, transfer, seed, trading, day, drawdown>>

\* GET /trader/strategies and /trader/drift/latest: the newest row, however old.
LatestDrift(v) == drift[v]

\* A bot in parity trades as its backtest did; a losing one never wins.
Conducts == {"parity", "losing"}
Closes(v, now) ==
    /\ bots[v].since >= 0 /\ now > bots[v].since
    /\ (now - bots[v].since) % Every[versions[v].ext] = 0
WinsNext(v) == bots[v].conduct = "parity" /\ Cardinality(bots[v].closed) % 2 = 0

\* The scripts end within a tick of three days, and one of its daily drift passes
\* is not lost.
Quiet == /\ transfer.pc # "plan" /\ \A s \in Seeders : seed[s] = NoSeed
         /\ \A v \in Evaluated : drift[v].day = day

\* A tick of paper trading and the snapshot at its end.
Tick(dd) ==
    /\ Quiet
    /\ day < MaxDay /\ day' = day + 1 /\ drawdown' = dd /\ transfer' = NoTransfer
    /\ bots' = [v \in DOMAIN bots |->
                  IF Closes(v, day + 1)
                  THEN [bots[v] EXCEPT !.closed = @ \cup {[day |-> day + 1, win |-> WinsNext(v)]}]
                  ELSE bots[v]]
    /\ UNCHANGED <<db, nextId, seed, strategies, versions, drift, alerts>>
-----------------------------------------------------------------------------
Init ==
    /\ db \in {[laptop |-> [exts |-> Extractions, bts |-> {}, ans |-> {}],
                prod   |-> [exts |-> es, bts |-> {}, ans |-> {}]] : es \in {{}, Extractions}}
    /\ nextId = 1
    /\ transfer = NoTransfer
    /\ seed = [s \in Seeders |-> NoSeed]
    /\ strategies = {} /\ versions = <<>> /\ bots = <<>>
    /\ day = 0 /\ drawdown = 0 /\ drift = <<>> /\ alerts = {}

Ids == 1 .. (nextId - 1)
Research ==
    \/ \E s \in Sites, e \in Extractions, r \in Ranges : Backtest(s, e, r)
    \/ \E s \in Sites : \E b \in db[s].bts : \E f \in Failures(b.ext, b.range) : Analyse(s, b, f)
    \/ \E es \in (SUBSET Extractions) \ {{}}, same \in BOOLEAN, dry \in BOOLEAN : TransferCollect(es, same, dry)
    \/ TransferWrite

Seeding ==
    \E s \in Seeders :
        \/ \E e \in Extractions, cli \in BOOLEAN, n \in Names, tf \in Timeframes : SeedStart(s, e, cli, n, tf)
        \/ \E pick \in {None} \cup Ids : SeedBacktest(s, pick)
        \/ \E pick \in {None} \cup Ids, dry \in BOOLEAN : SeedAnalysis(s, pick, dry)
        \/ SeedVersion(s)
        \/ \E c \in Conducts : SeedInsert(s, c)

Trading ==
    \/ \E v \in DOMAIN versions : ApprovePaper(v) \/ Enable(v) \/ Disable(v)
    \/ \E dd \in Drawdowns : Tick(dd)
    \/ DriftPass

Next == Research \/ Seeding \/ Trading
Spec == Init /\ [][Next]_vars
-----------------------------------------------------------------------------
(***************************************************************************)
(* Properties.                                                             *)
(***************************************************************************)
\* A version is pinned to evidence of its own: its backtest ran its extraction,
\* its analysis walked that backtest, and both are rows of production. The seed
\* reads them in queries that other jobs and transfers interleave with, and the
\* operator may pin ids by hand.
VersionsBacked ==
    \A v \in DOMAIN versions :
        /\ versions[v].bt \in db["prod"].bts /\ versions[v].bt.ext = versions[v].ext
        /\ versions[v].an \in db["prod"].ans /\ versions[v].an.bt = versions[v].bt.id

\* A transfer that reports success has put the whole chain into production: its
\* rows under their own ids, and nothing that hangs on a row that is missing.
\* Production makes rows of its own under the same unique keys meanwhile.
TransferKeepsChains ==
    /\ transfer.pc = "done" => /\ transfer.exts \subseteq db["prod"].exts
                               /\ transfer.bts \subseteq db["prod"].bts
                               /\ transfer.ans \subseteq db["prod"].ans
    /\ \A a \in db["prod"].ans : \E b \in db["prod"].bts : b.id = a.bt /\ b.ext \in db["prod"].exts

\* A judgement is mature when the version traded for the whole window, and fair
\* when the walk-forward counted every segment: none raised, and none began with
\* a warm-up of its own.
Mature(v) == drift[v].day >= 0 /\ bots[v].since >= 0 /\ drift[v].day - bots[v].since >= WindowTicks
Fair(v)   == /\ versions[v].an.failed = {}
             /\ Kind[versions[v].ext] = "stateful" \/ Warm[versions[v].ext] = 0
DeepDrawdown(v) == DrawdownBreach(LatestDrift(v).dd, versions[v].tf)

\* The seed's baseline and the drift pass count the same thing: a bot that trades
\* as its backtest did is not called a breach unless the portfolio is in a deep
\* drawdown, and one that only loses is not called healthy, even by a baseline
\* whose walk-forward has lost segments.
DriftVerdicts ==
    \A v \in DOMAIN versions : Mature(v) =>
        /\ bots[v].conduct = "parity" /\ Fair(v) /\ ~DeepDrawdown(v) => LatestDrift(v).health # "breach"
        /\ bots[v].conduct = "losing" => LatestDrift(v).health # "healthy"
=============================================================================
