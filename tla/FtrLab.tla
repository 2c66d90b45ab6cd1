------------------------------- MODULE FtrLab -------------------------------
(***************************************************************************)
(* The research half of FTR: the candle cache (ftr/data), the purged       *)
(* walk-forward of the hourly model (ftr/strategies/ml_hourly.py, features *)
(* /splits.py, features/shifting.py), the trend portfolio (ftr/strategies/ *)
(* trend_portfolio.py), the liquidity overlay, the two backtest engines    *)
(* (ftr/backtest), and the gauntlet that chooses a cell of the sweep and   *)
(* gives its verdicts (ftr/validation/runner.py, gates.py).                *)
(*                                                                         *)
(* Time is counted in bars; a bar the exchange has no candle for is an     *)
(* outage. The rows of a frame are the candles it holds, so neighbouring   *)
(* rows need not be neighbouring bars. What a model predicts and what the  *)
(* market does are chosen freely: a probability is below the exit level,   *)
(* below p_min or above it, an expected move is a small number, and the    *)
(* Sharpe ratio of a cell is 0 (not positive), 1 (positive) or 2 (enough   *)
(* for gate G2).                                                           *)
(***************************************************************************)
EXTENDS Integers, Sequences, FiniteSets, FiniteSetsExt, SequencesExt

CONSTANTS
    Outages,       \* sets of bars the exchange may have no candles for
    PageLimit,     \* candles in a page of the exchange's answer
    FirstNow,      \* the bar the research starts in
    MaxNow,        \* bound: the last bar
    MaxFetches,    \* bound: runs of the fetch program
    TrainBars, ValBars, EmbargoBars, TestBars, StepBars,   \* the anatomy of a fold
    MinFolds,      \* folds make_walkforward_folds asks for
    WarmupRows,    \* rows without features at the start of a frame
    MinTrainRows, MinOtherRows,                \* rows fit_fold asks for
    Horizons,      \* label horizons tried on every profile
    ShortHorizons, \* those tried on the reference profile only
    HoldMultiple,  \* max_hold_horizon_multiple
    Prices,        \* closes
    TrailGap,      \* trail_atr_multiple times the average true range
    Moves,         \* expected moves a calibration may give
    MaxDefer,      \* max_defer_bars
    PMins,         \* probabilities tried as the entry threshold
    Sharpes,       \* Sharpe ratios a cell that trades may have
    Profiles, Reference, Feasible, \* venue profiles; the research-only one; the accessible ones
    Cost,          \* profile -> half of its round trip cost and margin, in units of a move
    Coins,         \* the symbols of the trend portfolio, by name; BTC first
    Days, DayBars, \* days of the trend data, bars in a day
    HoldoutDay,    \* TREND_HOLDOUT_START
    MonthDay,      \* the day on which the universe is selected again
    RankDays,      \* days the ranking by dollar volume looks back
    Closes,        \* coin -> bar -> close: the price histories that are tried
    Volumes,       \* coin -> day -> dollar volume: those that are tried
    Cooldown       \* bars between an exit and the next entry

\* The embargo of a fold is as long as the longest horizon.
ASSUME FoldAssumption ==
    /\ PageLimit \in Nat \ {0} /\ MaxNow \in Nat /\ FirstNow \in 0 .. MaxNow
    /\ {TrainBars, ValBars, EmbargoBars, TestBars, StepBars} \subseteq Nat
    /\ \A h \in Horizons \union ShortHorizons : h <= EmbargoBars

\* Several entry thresholds are tried (ML_P_MINS), so that each has a next one.
ASSUME GridAssumption ==
    /\ Horizons \union ShortHorizons \subseteq Nat
    /\ PMins \subseteq Int /\ IsFiniteSet(PMins) /\ Cardinality(PMins) > 1
    /\ Sharpes \subseteq Nat

VARIABLES
    outage,    \* bars without a candle
    now,       \* the bar that is forming
    cache,     \* bars in the parquet file
    manifest,  \* what the fetch manifest says of the file, and the report of the QA
    fetches,   \* runs of the fetch program so far
    lab,       \* the validation run: its phase and what it holds in memory
    report     \* per strategy family: the verdicts of report.json

labVars == <<outage, now, cache, manifest, fetches, lab, report>>

NoTime == -1
NoReport == [first |-> NoTime, last |-> NoTime, missing |-> 0]
NoManifest == [first |-> NoTime, last |-> NoTime, qa |-> NoReport]
Idle   == [phase |-> "idle"]
Families == {"logistic", "xgboost"}
Unjudged == [verdict |-> "none", plateau |-> "none"]
Unreported == [p \in Profiles |-> Unjudged]

LabInit ==
    /\ outage \in Outages
    /\ now = FirstNow
    /\ cache = {} /\ manifest = NoManifest /\ fetches = 0
    /\ lab = Idle
    /\ report = [s \in {"ml", "trend"} |-> Unreported]

NextBar ==
    /\ now < MaxNow
    /\ now' = now + 1
    /\ UNCHANGED <<outage, cache, manifest, fetches, lab, report>>
-----------------------------------------------------------------------------
(***************************************************************************)
(* The candle cache.                                                       *)
(***************************************************************************)
Sorted(S) == [i \in 1 .. Cardinality(S) |-> CHOOSE x \in S : Cardinality({y \in S : y < x}) = i - 1]

Listed == (0 .. now) \ outage       \* the forming bar is served too

\* The research exchange serves every page; the series of the cross venue, which
\* only the QA of the primary one looks at, is left out.
Page(from) == LET later == Sorted({t \in Listed : t >= from})
              IN ToSet(SubSeq(later, 1, Min({PageLimit, Len(later)})))

\* fetch_ohlcv: pages from a cursor until the end, or a page that is not full.
Walk(from, end) ==
    LET walk[c \in 0 .. (MaxNow + 2)] ==
          IF c >= end THEN {}
          ELSE LET page == Page(c)
               IN IF page = {} THEN {}
                  ELSE {t \in page : t < end}
                       \union IF Cardinality(page) < PageLimit THEN {} ELSE walk[Max(page) + 1]
    IN walk[from]

\* get_ohlcv for all of history: only the front and the back that are missing.
NeedFront == Min(cache) > 1
NeedBack  == Max(cache) < now - 1
Extended ==
    IF cache = {} THEN Walk(0, now + 1)
    ELSE cache
         \union (IF NeedFront THEN Walk(0, Min(cache)) ELSE {})
         \union (IF NeedBack THEN Walk(Max(cache) + 1, now + 1) ELSE {})

\* validate_ohlcv: two rows more than a bar and a half apart are a gap.
Gaps(rows) == {i \in 1 .. (Len(rows) - 1) : 2 * (rows[i + 1] - rows[i]) > 3}
MissingBars(bars) ==
    LET rows == Sorted(bars)
    IN SumFunction([i \in Gaps(rows) |-> rows[i + 1] - rows[i] - 1])

\* The manifest is written with the file, the report of the QA by every run.
Entered(m)  == IF cache = {} \/ NeedFront \/ NeedBack
               THEN [m EXCEPT !.first = Min(Extended), !.last = Max(Extended)] ELSE m
Reported(m) == [m EXCEPT !.qa = [first |-> Min(Extended), last |-> Max(Extended),
                                 missing |-> MissingBars(Extended)]]

\* A page that fails five times ends the program, and nothing is written. The
\* file, the manifest and the report are written in this order, and the program
\* may be killed after any of them.
FetchAll ==
    /\ fetches < MaxFetches
    /\ fetches' = fetches + 1
    /\ \/ UNCHANGED <<cache, manifest>>
       \/ /\ Extended # {}
          /\ cache' = Extended
          /\ manifest' \in {manifest, Entered(manifest), Reported(Entered(manifest))}
    /\ UNCHANGED <<outage, now, lab, report>>
-----------------------------------------------------------------------------
(***************************************************************************)
(* Folds, labels and the masks of a fold.                                  *)
(***************************************************************************)
Fold(rows, k) ==
    LET start == rows[1] + k * StepBars
        train == start + TrainBars
        test  == train + ValBars + EmbargoBars
    IN [trainStart |-> start, trainEnd |-> train, valEnd |-> train + ValBars,
        testStart |-> test, testEnd |-> test + TestBars]

FoldIds(rows) == {k \in 0 .. MaxNow : Fold(rows, k).testEnd <= rows[Len(rows)]}

\* Rows with features and a label: the label of row i needs row i + h.
Labelled(rows, h) == {i \in DOMAIN rows : i > WarmupRows /\ i + h <= Len(rows)}

Between(rows, h, a, b) == {i \in Labelled(rows, h) : a <= rows[i] /\ rows[i] < b}

\* Mutant of TrainRows: no purge.
TrainRowsUnpurged(rows, h, k) ==
    Between(rows, h, Fold(rows, k).trainStart, Fold(rows, k).trainEnd)

\* The purge takes the bars of a horizon off the end of the training slice.
TrainRows(rows, h, k) == Between(rows, h, Fold(rows, k).trainStart, Fold(rows, k).trainEnd - h)
ValRows(rows, h, k)   == Between(rows, h, Fold(rows, k).trainEnd, Fold(rows, k).valEnd)
TestRows(rows, h, k)  == Between(rows, h, Fold(rows, k).testStart, Fold(rows, k).testEnd)

\* fit_fold refuses slices with too few rows.
Fits(rows, h, k) ==
    /\ Cardinality(TrainRows(rows, h, k)) >= MinTrainRows
    /\ Cardinality(ValRows(rows, h, k)) >= MinOtherRows
    /\ Cardinality(TestRows(rows, h, k)) >= MinOtherRows

\* The stitched test rows; a row belongs to the first fold that predicts it.
Stitched(rows, h, ks) == Sorted(UNION {TestRows(rows, h, k) : k \in ks})
FoldOf(rows, h, ks, i) == Min({k \in ks : i \in TestRows(rows, h, k)})

\* The cache alone, without a look at the exchange.
LoadCache == Sorted(cache)

\* run_ml_validation loads the cache, cuts the folds and fits one horizon. A
\* fold whose labels are all alike is skipped too. Too few folds, or none that
\* fits, end the run.
WalkForward(h, alike) ==
    /\ lab = Idle /\ cache # {}
    /\ LET rows  == LoadCache
           ks    == {k \in FoldIds(rows) : Fits(rows, h, k)} \ alike
           w     == Stitched(rows, h, ks)
       IN /\ Cardinality(FoldIds(rows)) >= MinFolds
          /\ alike \subseteq FoldIds(rows) /\ ks # {}
          /\ \E moves \in [ks -> Moves] :
                lab' = [phase |-> "fitted", rows |-> rows, h |-> h, folds |-> ks,
                        moves |-> [i \in DOMAIN w |-> moves[FoldOf(rows, h, ks, w[i])]]]
    /\ UNCHANGED <<outage, now, cache, manifest, fetches, report>>
-----------------------------------------------------------------------------
(***************************************************************************)
(* decide_window: the EV gate and the exits over the stitched window.      *)
(***************************************************************************)
Probabilities == {"decay", "weak", "strong"}

Enters(p, move, prof) == p = "strong" /\ move > Cost[prof]

Positions(h, moves, prob, close, prof) ==
    LET step[i \in 0 .. Len(moves)] ==
          IF i = 0 THEN [in |-> FALSE, high |-> 0, held |-> 0]
          ELSE LET s == step[i - 1]
                   high == Max({s.high, close[i]})
               IN IF s.in
                  THEN [in   |-> ~ (\/ prob[i] = "decay"
                                    \/ close[i] <= high - TrailGap
                                    \/ s.held + 1 >= HoldMultiple * h),
                        high |-> high, held |-> s.held + 1]
                  ELSE [in   |-> Enters(prob[i], moves[i], prof), high |-> close[i], held |-> 0]
    IN [i \in DOMAIN moves |-> IF step[i].in THEN 1 ELSE 0]

\* The positions of one cell of the sweep.
Decide(prof) ==
    /\ lab.phase = "fitted"
    /\ \E prob \in [DOMAIN lab.moves -> Probabilities], close \in [DOMAIN lab.moves -> Prices] :
          lab' = [phase |-> "decided", timed |-> <<>>, waits |-> <<>>,
                  pos |-> Positions(lab.h, lab.moves, prob, close, prof)]
    /\ UNCHANGED <<outage, now, cache, manifest, fetches, report>>
-----------------------------------------------------------------------------
(***************************************************************************)
(* The liquidity overlay re-times the entries of a position series. It     *)
(* keeps its count of deferrals from one episode to the next.              *)
(***************************************************************************)
\* Without a measurement the entry is allowed, and the count stays as it is.
Spreads == {"unknown", "narrow", "wide"}

\* Within an episode an entry and a cancellation are final.
Settled(at) == at \in {"in", "skipped"}

Overlay(pos, spread) ==
    LET walk[i \in 0 .. Len(pos)] ==
          IF i = 0 THEN [at |-> "flat", defers |-> 0]
          ELSE LET s == walk[i - 1]
               IN IF pos[i] = 0 THEN [s EXCEPT !.at = "flat"]
                  ELSE IF Settled(s.at) THEN s
                  ELSE IF spread[i] = "unknown" THEN [s EXCEPT !.at = "in"]
                  ELSE IF spread[i] = "narrow" THEN [at |-> "in", defers |-> 0]
                  ELSE IF s.defers + 1 <= MaxDefer THEN [at |-> "wait", defers |-> s.defers + 1]
                  ELSE [at |-> "skipped", defers |-> 0]
    IN [i \in 1 .. Len(pos) |-> walk[i].at]

\* The ablation, where one-minute candles tell how wide the spread is. It is
\* read at the rows where the strategy is in only.
Ablate ==
    /\ lab.phase = "decided" /\ lab.timed = <<>>
    /\ \E spread \in [{i \in DOMAIN lab.pos : lab.pos[i] = 1} -> Spreads] :
          LET at == Overlay(lab.pos, spread)
          IN lab' = [lab EXCEPT !.waits = at,
                                !.timed = [i \in DOMAIN at |-> IF at[i] = "in" THEN 1 ELSE 0]]
    /\ UNCHANGED <<outage, now, cache, manifest, fetches, report>>
-----------------------------------------------------------------------------
(***************************************************************************)
(* The two engines. A trade is the rows of its fills; of the equity curve  *)
(* a run keeps the rows over which it earned, as prices enter it only so.  *)
(***************************************************************************)
Held(pos) == [i \in DOMAIN pos |-> IF i = 1 THEN 0 ELSE pos[i - 1]]

\* run_vector_backtest: what is held during a row was decided at the one
\* before; a position that is open at the end is closed at the last row.
VectorRun(pos) ==
    LET held  == Held(pos)
        n     == Len(pos)
        flips == [i \in 1 .. n |-> held[i] - (IF i = 1 THEN 0 ELSE held[i - 1])]
        ins   == {i \in 1 .. n : flips[i] = 1}
        outs  == {i \in 1 .. n : flips[i] = -1}
        outOf(i) == LET later == {j \in (i + 1) .. n : flips[j] = -1}
                    IN IF later = {} THEN n ELSE Min(later)
    IN [trades |-> {<<i, outOf(i)>> : i \in ins},
        earns  |-> {i \in 1 .. (n - 1) : held[i] = 1},
        sides  |-> Cardinality(ins) + Cardinality(outs) + (IF n > 0 /\ held[n] = 1 THEN 1 ELSE 0)]

\* run_event_backtest: a ledger that buys and sells at the open of a row, and
\* sells what is left at the last one.
Bought(s, i) == [s EXCEPT !.open = i, !.sides = @ + 1]
Sold(s, i)   == [s EXCEPT !.open = 0, !.sides = @ + 1, !.trades = @ \union {<<s.open, i>>}]

\* Mutant of SoldOut: a position that is open at the end stays open.
SoldOutNever(s, i, n) == s

SoldOut(s, i, n) == IF i = n /\ s.open > 0 THEN Sold(s, i) ELSE s

EventRun(pos) ==
    LET n == Len(pos)
        step[i \in 0 .. n] ==
          IF i = 0 THEN [open |-> 0, trades |-> {}, earns |-> {}, sides |-> 0]
          ELSE LET s    == step[i - 1]
                   want == Held(pos)[i] = 1
                   t    == SoldOut(IF want /\ s.open = 0 THEN Bought(s, i)
                                   ELSE IF ~want /\ s.open > 0 THEN Sold(s, i) ELSE s, i, n)
               IN [t EXCEPT !.earns = IF t.open > 0 THEN @ \union {i} ELSE @]
    IN [trades |-> step[n].trades, earns |-> step[n].earns, sides |-> step[n].sides]
-----------------------------------------------------------------------------
(***************************************************************************)
(* The gates. A cell of a sweep is its Sharpe ratio, or NoTrades (whose    *)
(* ratio counts as 0). Gates G1, G3, G4, G5 and G6 are judged as one.      *)
(***************************************************************************)
NoTrades == -1
SharpeFloor == 2
Ratio(level) == Max({level, 0})

EvaluateGates(prof, in) ==
    IF in.level = NoTrades THEN "REJECTED"
    ELSE IF \/ ~in.sound \/ in.level < SharpeFloor
            \/ in.plateau = "steep" \/ in.dear = "loss" \/ in.freq = "high" THEN "REJECTED"
    ELSE IF in.freq = "low" THEN "PASS_LOW_FREQUENCY"
    ELSE IF prof \in Feasible THEN "PASS" ELSE "CONDITIONAL_PASS_INFEASIBLE_VENUE"

Inputs(level, plateau, dear) ==
    [level : {level}, plateau : {plateau}, dear : dear, sound : BOOLEAN, freq : {"low", "in", "high"}]

Verdict(prof, in) == [verdict |-> EvaluateGates(prof, in), plateau |-> in.plateau]
Judged == \A p \in Profiles : lab.verdicts[p] # Unjudged

-----------------------------------------------------------------------------
(***************************************************************************)
(* The sweep of the hourly model and the verdict of each profile.          *)
(***************************************************************************)
Tried(prof) == IF prof = Reference THEN Horizons \union ShortHorizons ELSE Horizons
Cells(prof) == Families \X Tried(prof) \X PMins

Sweep ==
    /\ lab.phase = "fitted"
    /\ lab' = [phase |-> "swept", verdicts |-> Unreported]
    /\ UNCHANGED <<outage, now, cache, manifest, fetches, report>>

\* A family's best cell trades and has the highest ratio.
Bests(cells, f) ==
    LET trading == {c \in DOMAIN cells : c[1] = f /\ cells[c] # NoTrades}
    IN {c \in trading : \A d \in trading : cells[c] >= cells[d]}

\* The boosted model must do better than the linear one to be the candidate.
Candidates(cells) ==
    LET x == Bests(cells, "xgboost")
        l == Bests(cells, "logistic")
    IN IF x = {} \/ l = {} THEN x \union l
       ELSE IF \A c \in x, d \in l : cells[c] > cells[d] THEN x ELSE l

Adjacent(S, a, b) == Cardinality({s \in S : (a < s /\ s <= b) \/ (b < s /\ s <= a)}) <= 1

\* Mutant of Comparable: a neighbour that does not trade is left out.
ComparableTrading(cells, c, d) == d # c /\ d[1] = c[1] /\ cells[d] # NoTrades

Comparable(cells, c, d) == d # c /\ d[1] = c[1]

Neighbours(cells, c) ==
    {d \in DOMAIN cells :
        /\ Comparable(cells, c, d)
        /\ Adjacent({x[2] : x \in DOMAIN cells}, c[2], d[2])
        /\ Adjacent(PMins, c[3], d[3])}

\* The plateau is flat when the median of the neighbours reaches seven tenths of
\* the chosen ratio. Without a gain or a neighbour there is none to judge.
PlateauOf(cells, c) ==
    LET ns     == Neighbours(cells, c)
        n      == Cardinality(ns)
        r(d)   == Ratio(cells[d])
        nth(k) == Min({r(d) : d \in {e \in ns : Cardinality({x \in ns : r(x) <= r(e)}) >= k}})
    IN IF cells[c] <= 0 \/ ns = {} THEN "skipped"
       ELSE IF 10 * (nth((n + 1) \div 2) + nth(n \div 2 + 1)) >= 14 * cells[c] THEN "flat" ELSE "steep"

\* At one and a half times the cost a cell may gain, lose, or not trade at all,
\* which skips gate G8.
JudgeMl(prof) ==
    /\ lab.phase = "swept" /\ lab.verdicts[prof] = Unjudged
    /\ \E cells \in [Cells(prof) -> {NoTrades} \union Sharpes] :
          LET chosen == Candidates(cells)
          IN \/ /\ chosen = {}
                /\ \E in \in Inputs(NoTrades, "skipped", {"skipped"}) :
                      lab' = [lab EXCEPT !.verdicts[prof] = Verdict(prof, in)]
             \/ \E c \in chosen :
                \E in \in Inputs(cells[c], PlateauOf(cells, c), {"gain", "loss", "skipped"}) :
                      lab' = [lab EXCEPT !.verdicts[prof] = Verdict(prof, in)]
    /\ UNCHANGED <<outage, now, cache, manifest, fetches, report>>

ReportMl ==
    /\ lab.phase = "swept" /\ Judged
    /\ report' = [report EXCEPT !["ml"] = lab.verdicts]
    /\ lab' = Idle
    /\ UNCHANGED <<outage, now, cache, manifest, fetches>>
-----------------------------------------------------------------------------
(***************************************************************************)
(* The trend portfolio over Coins, the first of which is BTC. The averages *)
(* and channels of a bar are reduced to how its close compares with the    *)
(* close before it, the 200-day average of BTC to the day before.          *)
(***************************************************************************)
Bars == 1 .. (Days * DayBars)

\* The histories reach beyond the start of the holdout, for every coin.
ASSUME TrendAssumption ==
    /\ {Days, DayBars, HoldoutDay} \subseteq Nat \ {0} /\ HoldoutDay <= Days
    /\ {Cooldown, TrailGap} \subseteq Nat /\ 1 \in DOMAIN Coins
    /\ Closes \subseteq [ToSet(Coins) -> [Bars -> Int]]

DayOf(i) == (i - 1) \div DayBars + 1
Btc == Coins[1]

\* What is known when bar t closes.
Upto(closes, t) == [c \in ToSet(Coins) |-> SubSeq(closes[c], 1, t)]

\* select_universe: the coin with the largest median volume over the days of
\* the window that have ended; among equals the first by name.
Volume(volumes, c, d) == FoldLeft(+, 0, [i \in 1 .. RankDays |-> volumes[c][d - i]])
Selected(volumes, d) ==
    CHOOSE c \in ToSet(Coins) : \A o \in ToSet(Coins) \ {c} :
        \/ Volume(volumes, c, d) > Volume(volumes, o, d)
        \/ Volume(volumes, c, d) = Volume(volumes, o, d)
             /\ \E i, j \in DOMAIN Coins : i < j /\ Coins[i] = c /\ Coins[j] = o

\* Nobody is a member before the first selection.
Member(volumes, c, i) == DayOf(i) >= MonthDay /\ Selected(volumes, MonthDay) = c

\* btc_regime_mask: a daily close above the average, from the next day on.
DailyClose(closes, d) == closes[Btc][Min({d * DayBars, Len(closes[Btc])})]
AboveAverage(closes, d) == d >= 2 /\ DailyClose(closes, d) > DailyClose(closes, d - 1)
\* Mutant of Regime: the daily series is not shifted.
RegimeToday(closes, i) == AboveAverage(closes, DayOf(i))

Regime(closes, i) == AboveAverage(closes, DayOf(i) - 1)

\* compute_asset_signals.
Asset(closes, volumes, gate, c) ==
    LET s == closes[c]
        step[i \in 0 .. Len(s)] ==
          IF i = 0 THEN [in |-> FALSE, high |-> 0, until |-> 0]
          ELSE LET p     == step[i - 1]
                   high  == Max({p.high, s[i]})
                   rises == i > 1 /\ s[i] > s[i - 1]
                   falls == i > 1 /\ s[i] < s[i - 1]
               IN IF p.in
                  THEN IF s[i] <= high - TrailGap \/ falls \/ ~Member(volumes, c, i)
                       THEN [in |-> FALSE, high |-> high, until |-> i + Cooldown]
                       ELSE [p EXCEPT !.high = high]
                  ELSE IF /\ rises /\ i > p.until /\ Member(volumes, c, i)
                          /\ gate => Regime(closes, i)
                       THEN [in |-> TRUE, high |-> s[i], until |-> p.until]
                       ELSE p
    IN [i \in 1 .. Len(s) |-> IF step[i].in THEN 1 ELSE 0]

\* What a cell of the grid holds, bar by bar and coin by coin.
CellRun(closes, volumes, gate) == [c \in ToSet(Coins) |-> Asset(closes, volumes, gate, c)]

\* What the held coins earn over a window of bars, and how often a position
\* opens in it. Inside a window the first bar opens nothing.
Earned(run, closes, first, last) ==
    SumFunction([x \in ToSet(Coins) \X ((first + 1) .. (last - 1)) |->
                    run[x[1]][x[2] - 1] * (closes[x[1]][x[2]] - closes[x[1]][x[2] - 1])])
Entries(run, first, last) ==
    Cardinality({x \in ToSet(Coins) \X ((first + 1) .. last) : run[x[1]][x[2]] = 1 /\ run[x[1]][x[2] - 1] = 0})

LastBefore(d) == (d - 1) * DayBars

\* The grid, reduced to the regime gate: the best cell of the selection window,
\* the first of equals, among those that trade there.
SelectCell(runs, closes) ==
    LET viable    == {g \in BOOLEAN : Entries(runs[g], 1, LastBefore(HoldoutDay)) > 0}
        earned    == [g \in viable |-> Earned(runs[g], closes, 1, LastBefore(HoldoutDay))]
        better(g) == \A o \in viable : earned[g] >= earned[o]
    IN IF viable = {} THEN "none"
       ELSE IF FALSE \in viable /\ better(FALSE) THEN "ungated" ELSE "gated"

\* run_trend_validation runs every cell of the grid over all of history.
TrendGrid ==
    /\ lab = Idle /\ cache # {}
    /\ \E closes \in Closes, volumes \in Volumes :
          lab' = [phase |-> "grid", closes |-> closes, volumes |-> volumes,
                  runs |-> [g \in BOOLEAN |-> CellRun(closes, volumes, g)]]
    /\ UNCHANGED <<outage, now, cache, manifest, fetches, report>>

\* The chosen cell goes on to the holdout. One that earned nothing has no
\* plateau.
TrendValidation ==
    /\ lab.phase = "grid"
    /\ LET cell == SelectCell(lab.runs, lab.closes)
           run  == lab.runs[cell = "gated"]
       IN lab' = [phase   |-> "trend",
                  cell    |-> cell,
                  entries |-> Entries(run, LastBefore(HoldoutDay) + 1, Days * DayBars),
                  earns   |-> cell # "none" /\ Earned(run, lab.closes, 1, LastBefore(HoldoutDay)) > 0]
    /\ UNCHANGED <<outage, now, cache, manifest, fetches, report>>

\* A verdict of every profile on the holdout, or one for all when no cell of
\* the grid trades.
ReportTrend ==
    /\ lab.phase = "trend"
    /\ LET levels == IF lab.cell = "none" \/ lab.entries = 0 THEN {NoTrades} ELSE Sharpes
       IN \E plateau \in IF lab.earns THEN {"flat", "steep"} ELSE {"skipped"} :
          \E ins \in [Profiles -> UNION {Inputs(l, plateau, {"gain", "loss"}) : l \in levels}] :
             report' = [report EXCEPT !["trend"] = [p \in Profiles |-> Verdict(p, ins[p])]]
    /\ lab' = Idle
    /\ UNCHANGED <<outage, now, cache, manifest, fetches>>
-----------------------------------------------------------------------------
LabNext ==
    \/ NextBar \/ FetchAll
    \/ \E h \in Horizons \union ShortHorizons, k \in SUBSET (0 .. 1) : WalkForward(h, k)
    \/ \E p \in Profiles : Decide(p) \/ JudgeMl(p)
    \/ Ablate \/ Sweep \/ ReportMl \/ TrendGrid \/ TrendValidation \/ ReportTrend
-----------------------------------------------------------------------------
\* The cache has no holes of its own making: between its first and last bar it
\* misses what the exchange never had, after any number of runs that extend it
\* at either end, failed pages and kills. The report of the QA may be older than
\* the file, but of the span it names it still counts every missing bar.
HolesReported ==
    LET qa == manifest.qa IN
    /\ cache # {} => (Min(cache) .. Max(cache)) \ cache \subseteq outage
    /\ qa # NoReport => qa.missing = Cardinality((qa.first .. qa.last) \ cache)

\* Where a label looks: the bar of the row its horizon ahead.
Looks(rows, h, i) == rows[i + h]
Hole(rows, i, j)  == rows[j] - rows[i] > j - i

\* A training label looks past its slice only across a hole, which the exchange
\* made and the next report of the QA counts: on contiguous rows the purge is exact at its
\* boundary, and the embargo keeps the labels that stop the training early out
\* of the test slice.
LeaksOnlyAcrossHoles ==
    /\ HolesReported
    /\ lab.phase = "fitted" =>
         LET rows == lab.rows
             h    == lab.h
         IN \A k \in lab.folds :
               /\ \A i \in TrainRows(rows, h, k) :
                     Looks(rows, h, i) < Fold(rows, k).trainEnd \/ Hole(rows, i, i + h)
               /\ \A i \in ValRows(rows, h, k) :
                     Looks(rows, h, i) < Fold(rows, k).testStart \/ Hole(rows, i, i + h)

\* "no training label's forward window reaches into validation".
LabelsPurged ==
    lab.phase = "fitted" =>
        \A k \in lab.folds : \A i \in TrainRows(lab.rows, lab.h, k) :
            Looks(lab.rows, lab.h, i) < Fold(lab.rows, k).trainEnd

\* The overlay never holds what the strategy does not, never enters an episode
\* twice and never leaves one early: it drops the start of it, or all of it.
OverlayOnlyDelays ==
    lab.phase = "decided" /\ lab.timed # <<>> =>
        \A i \in DOMAIN lab.pos :
            /\ lab.timed[i] = 1 => lab.pos[i] = 1
            /\ i > 1 /\ lab.timed[i - 1] = 1 /\ lab.pos[i] = 1 => lab.timed[i] = 1
            /\ i > 1 /\ lab.waits[i - 1] = "skipped" /\ lab.pos[i] = 1 => lab.timed[i] = 0

\* The two engines book the same trades, pay the same number of costs and earn
\* over the same rows, with the overlay and without it, and the trades of the
\* overlay are those of the strategy, later or not at all.
EnginesAgree ==
    /\ OverlayOnlyDelays
    /\ lab.phase = "decided" =>
         /\ VectorRun(lab.pos) = EventRun(lab.pos)
         /\ lab.timed # <<>> => VectorRun(lab.timed) = EventRun(lab.timed)

\* Every cell of the trend grid holds at each close what it would have held
\* knowing nothing later, and the cell is chosen without a look at the holdout.
TrendCausal ==
    lab.phase = "grid" =>
        LET Known(g, t) == CellRun(Upto(lab.closes, t), lab.volumes, g)
            early == LastBefore(HoldoutDay)
        IN /\ \A g \in BOOLEAN, c \in ToSet(Coins), t \in Bars : lab.runs[g][c][t] = Known(g, t)[c][t]
           /\ SelectCell(lab.runs, lab.closes)
                = SelectCell([g \in BOOLEAN |-> Known(g, early)], Upto(lab.closes, early))
=============================================================================
