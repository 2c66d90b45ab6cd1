---------------------------- MODULE SpecSignals ----------------------------
(***************************************************************************)
(* How a StrategySpec becomes entry and exit signals (backtest/translator) *)
(* and how SpecTemplate decides on them live: every cycle evaluates a      *)
(* sliding window of candles, in which the regimes and ratchets continue   *)
(* from the state that the previous evaluation persisted.                  *)
(*                                                                         *)
(* A spec is a tree.  Conditions carry a "type" and expressions a "kind",  *)
(* as in the schema; a regime or ratchet has an id, its position in the    *)
(* StrategyState.  The candle patterns, RSI, Bollinger and z-score gates   *)
(* are the "band" condition over the indicator they compute.  Time is      *)
(* counted in primary bars: bar b opens at b and closes at b + 1.          *)
(***************************************************************************)
EXTENDS Integers, Sequences, FiniteSets, SequencesExt

CONSTANTS
    N,          \* bars of the history
    Levels,     \* the closes a bar may have
    Specs,      \* the specs
    FilterBars, \* primary bars in a bar of the filter timeframe
    DayBars,    \* primary bars in a day
    Week,       \* days in a week
    MinBars,    \* min_bars_needed: fewer candles are not evaluated
    Window,     \* candles loaded: min_bars_needed + _SAFETY_MARGIN_BARS
    MaxGap,     \* bars that may pass between two evaluations
    NAN,        \* pandas' missing value
    NONE        \* Python's None

ASSUME SpecSizes ==
    /\ {N, FilterBars, DayBars, Week, MinBars, Window, MaxGap} \subseteq Nat \ {0}
    /\ MinBars <= Window /\ MaxGap < Window
    /\ Levels \subseteq Nat

VARIABLES
    spec,      \* the version's spec
    close,     \* the history
    state,     \* the persisted StrategyState: node id -> latch or extremum
    latest,    \* the bar it is of, -1 before the first evaluation
    origin,    \* the first bar of the first window
    position,  \* the bar at whose open the open position was filled, or NONE
    kind       \* the latest SignalKind

vars == <<spec, close, state, latest, origin, position, kind>>

-----------------------------------------------------------------------------
(* introspection.py: the tree walks. *)

SubExpression(e) ==
    CASE e.kind \in {"lagged", "scaled", "percentile"} -> {e.expression}
      [] e.kind = "ratchet" -> {e.source}
      [] OTHER -> {}

SubConditions(c) ==
    CASE c.type \in {"and", "or"} -> {c.conditions[i] : i \in DOMAIN c.conditions}
      [] c.type \in {"not", "within_last_n_bars"} -> {c.condition}
      [] c.type = "regime_state" -> {c.enter_when, c.exit_when}
      [] OTHER -> {}

DirectExpressions(c) ==
    CASE c.type = "compare" -> {c.left, c.right}
      [] c.type = "crossover" -> {c.series, c.threshold}
      [] c.type \in {"rising", "falling", "band"} -> {c.series}
      [] OTHER -> {}

RECURSIVE IterExpressions(_)
IterExpressions(e) == {e} \cup UNION {IterExpressions(f) : f \in SubExpression(e)}

RECURSIVE IterConditions(_)
IterConditions(c) == {c} \cup UNION {IterConditions(d) : d \in SubConditions(c)}

IterAllExpressions(c) ==
    UNION {IterExpressions(e) : e \in UNION {DirectExpressions(d) : d \in IterConditions(c)}}

StatefulIds(c) ==
    {d.id : d \in {d \in IterConditions(c) : d.type = "regime_state"}}
    \cup {e.id : e \in {e \in IterAllExpressions(c) : e.kind = "ratchet"}}

Roots(s) == {s.entry} \cup ToSet(s.exits) \cup {f.condition : f \in {f \in s.filters : f.type = "condition"}}

\* _enumerate_stateful_nodes
StatefulNodes(s) == UNION {StatefulIds(c) : c \in Roots(s)}

RECURSIVE NestingDepth(_)
NestingDepth(c) ==
    (IF c.type = "regime_state" THEN 1 ELSE 0)
        + Max({0} \cup {NestingDepth(d) : d \in SubConditions(c)})

-----------------------------------------------------------------------------
(* Series.  An evaluation context is a window of bars, the closes and the  *)
(* seeds; a series is a function from the bars of its timeframe.           *)

PrimaryBars(ctx) == ctx.first..ctx.last

\* The filter bars of a window that have closed by its end.
ClosedFilterBars(ctx) ==
    {j \in (ctx.first \div FilterBars)..((ctx.last + 1) \div FilterBars - 1) :
        j * FilterBars >= ctx.first}

BarsOf(tf, ctx) == IF tf = "filter" THEN ClosedFilterBars(ctx) ELSE PrimaryBars(ctx)

CloseOf(tf, i, ctx) == ctx.close[IF tf = "filter" THEN (i + 1) * FilterBars - 1 ELSE i]

Shift(series, n) == [i \in DOMAIN series |-> IF i - n \in DOMAIN series THEN series[i - n] ELSE NAN]

SumOf(f) == MapThenFoldSet(+, 0, LAMBDA i : f[i], LAMBDA S : CHOOSE i \in S : TRUE, DOMAIN f)

\* The rank of the newest value, ties below it counting whole.
RankOf(f) == Cardinality({i \in DOMAIN f : f[i] <= f[Len(f)]})

\* A rolling reduction is NaN until its window is full of values.
Rolling(series, n, statistic) ==
    [i \in DOMAIN series |->
        IF \A k \in (i - n + 1)..i : k \in DOMAIN series /\ series[k] # NAN
        THEN LET full == [k \in 1..n |-> series[i - n + k]] IN
             IF statistic = "sum" THEN SumOf(full) ELSE RankOf(full)
        ELSE NAN]

Extremum(e, S) == IF e.extremum = "max" THEN Max(S) ELSE Min(S)

\* cummax / cummin, clipped by the seed.
RatchetSeries(e, inner, ctx) ==
    LET seed == IF ctx.seeds[e.id] = NONE THEN {} ELSE {ctx.seeds[e.id]} IN
    [i \in DOMAIN inner |->
        IF inner[i] = NAN THEN NAN
        ELSE Extremum(e, seed \cup ({inner[k] : k \in {k \in DOMAIN inner : k <= i}} \ {NAN}))]

RECURSIVE EvalExpression(_, _, _)
EvalExpression(e, tf, ctx) ==
    CASE e.kind = "price" -> [i \in BarsOf(tf, ctx) |-> CloseOf(tf, i, ctx)]
      [] e.kind = "constant" -> [i \in BarsOf(tf, ctx) |-> e.value]
      [] e.kind = "sma" ->
            Rolling([i \in BarsOf(tf, ctx) |-> CloseOf(tf, i, ctx)], e.period, "sum")
      [] e.kind = "lagged" -> Shift(EvalExpression(e.expression, tf, ctx), e.bars_ago)
      [] e.kind = "percentile" -> Rolling(EvalExpression(e.expression, tf, ctx), e.window, "rank")
      [] e.kind = "ratchet" -> RatchetSeries(e, EvalExpression(e.source, tf, ctx), ctx)
      [] e.kind = "scaled" ->
            LET inner == EvalExpression(e.expression, tf, ctx) IN
            [i \in DOMAIN inner |-> IF inner[i] = NAN THEN NAN ELSE inner[i] * e.factor]

Apply(op, x, y) ==
    /\ x # NAN /\ y # NAN
    /\ CASE op = ">" -> x > y
         [] op = ">=" -> x >= y
         [] op = "<" -> x < y
         [] op = "<=" -> x <= y
         [] op = "==" -> x = y

Crosses(above, x, y) ==
    LET before == IF above THEN "<=" ELSE ">="
        after == IF above THEN ">" ELSE "<"
    IN [i \in DOMAIN x |-> /\ Apply(before, Shift(x, 1)[i], Shift(y, 1)[i])
                           /\ Apply(after, x[i], y[i])]

\* The forms of the RSI, Bollinger and z-score gates on their oscillator.
BandSeries(c, x) ==
    LET Level(v) == [i \in DOMAIN x |-> v]
        prev == Shift(x, 1)
    IN CASE c.form = "below" -> [i \in DOMAIN x |-> Apply("<", x[i], c.level)]
         [] c.form = "above" -> [i \in DOMAIN x |-> Apply(">", x[i], c.level)]
         [] c.form = "crosses_above" -> Crosses(TRUE, x, Level(c.level))
         [] c.form = "crosses_below" -> Crosses(FALSE, x, Level(c.level))
         [] c.form = "toward" ->
              [i \in DOMAIN x |->
                 \/ Apply("<=", prev[i], -c.level) /\ Apply(">", x[i], prev[i])
                 \/ Apply(">=", prev[i], c.level) /\ Apply("<", x[i], prev[i])]

Hour(b) == b % DayBars
Weekday(b) == (b \div DayBars) % Week

InHours(b, c) ==
    LET UpTo == IF c.inclusive_end THEN Hour(b) <= c.end ELSE Hour(b) < c.end IN
    IF c.start <= c.end THEN Hour(b) >= c.start /\ UpTo ELSE Hour(b) >= c.start \/ UpTo

-----------------------------------------------------------------------------
(* Conditions.  The value of a bar is TRUE, FALSE or NAN: an aligned       *)
(* series has no value before its first filter bar has closed.             *)

IsTrue(v) == v # NAN /\ v

\* pandas' & and | read a missing right operand as False; a missing left one
\* makes the result False, whatever the right one is.
AndSeries(f, g) == [i \in DOMAIN f |-> IsTrue(f[i]) /\ IsTrue(g[i])]
OrSeries(f, g) == [i \in DOMAIN f |-> f[i] # NAN /\ (f[i] \/ IsTrue(g[i]))]

\* Mutant of AlignToPrimary: a filter bar is visible from its open.
AlignByOpen(series, ctx) ==
    [b \in PrimaryBars(ctx) |->
        LET known == {j \in DOMAIN series : j * FilterBars <= b} IN
        IF known = {} THEN NAN ELSE series[Max(known)]]

\* _align_to_primary: bar b sees the last filter bar closed when b opens.
AlignToPrimary(series, ctx) ==
    [b \in PrimaryBars(ctx) |->
        LET known == {j \in DOMAIN series : (j + 1) * FilterBars <= b} IN
        IF known = {} THEN NAN ELSE series[Max(known)]]

\* Mutant of RegimeSeries: every window starts from the spec's initial latch.
RegimeUnseeded(c, enter, exit, ctx) ==
    [b \in PrimaryBars(ctx) |->
        LET fired == {i \in ctx.first..b : IsTrue(enter[i]) \/ IsTrue(exit[i])} IN
        IF fired = {} THEN c.initial ELSE ~IsTrue(exit[Max(fired)])]

\* _eval_regime_state: the latest trigger decides, exits first; before the
\* first trigger of the window the latch is the seed.
RegimeSeries(c, enter, exit, ctx) ==
    LET leading == IF ctx.seeds[c.id] = NONE THEN c.initial ELSE ctx.seeds[c.id] IN
    [b \in PrimaryBars(ctx) |->
        LET fired == {i \in ctx.first..b : IsTrue(enter[i]) \/ IsTrue(exit[i])} IN
        IF fired = {} THEN leading ELSE ~IsTrue(exit[Max(fired)])]

WithinSeries(f, n) ==
    [b \in DOMAIN f |-> \E i \in (b - n + 1)..b : i \in DOMAIN f /\ IsTrue(f[i])]

MonotonicSeries(c, x) ==
    LET op == IF c.type = "rising" THEN IF c.strict THEN ">" ELSE ">="
              ELSE IF c.strict THEN "<" ELSE "<="
    IN [i \in DOMAIN x |-> Apply(op, x[i], Shift(x, c.lookback)[i])]

Timeframe(c) == IF c.type \in {"compare", "crossover", "rising", "falling", "band"}
                THEN c.timeframe ELSE "primary"

RECURSIVE EvalCondition(_, _)
EvalCondition(c, ctx) ==
    LET tf == Timeframe(c)
        Value(e) == EvalExpression(e, tf, ctx)
        Parts == [i \in DOMAIN c.conditions |-> EvalCondition(c.conditions[i], ctx)]
        raw ==
          CASE c.type = "compare" ->
                 LET x == Value(c.left) y == Value(c.right)
                 IN [i \in DOMAIN x |-> Apply(c.op, x[i], y[i])]
            [] c.type = "crossover" -> Crosses(c.direction = "above", Value(c.series), Value(c.threshold))
            [] c.type \in {"rising", "falling"} -> MonotonicSeries(c, Value(c.series))
            [] c.type = "band" -> BandSeries(c, Value(c.series))
            [] c.type = "within_last_n_bars" -> WithinSeries(EvalCondition(c.condition, ctx), c.n)
            [] c.type = "and" -> FoldLeft(AndSeries, Head(Parts), Tail(Parts))
            [] c.type = "or" -> FoldLeft(OrSeries, Head(Parts), Tail(Parts))
            [] c.type = "regime_state" ->
                 RegimeSeries(c, EvalCondition(c.enter_when, ctx), EvalCondition(c.exit_when, ctx), ctx)
            [] c.type = "not" ->
                 LET inner == EvalCondition(c.condition, ctx)
                 IN [b \in DOMAIN inner |-> inner[b] # NAN /\ ~inner[b]]
            [] c.type = "time_of_day" -> [b \in PrimaryBars(ctx) |-> InHours(b, c)]
            [] c.type = "day_of_week" -> [b \in PrimaryBars(ctx) |-> Weekday(b) \in c.weekdays]
    IN IF tf = "filter" THEN AlignToPrimary(raw, ctx) ELSE raw

-----------------------------------------------------------------------------
(* _compile_signal_set *)

FilterMask(f, ctx) ==
    CASE f.type = "session" -> [b \in PrimaryBars(ctx) |-> Hour(b) \in f.start..f.end]
      [] f.type = "weekday" -> [b \in PrimaryBars(ctx) |-> Weekday(b) + 1 \in f.days]
      [] f.type = "condition" -> EvalCondition(f.condition, ctx)

\* The entry series before its NaNs are filled.
RawEntries(s, ctx) ==
    LET entry == EvalCondition(s.entry, ctx) IN
    IF s.filters = {} THEN entry
    ELSE [b \in PrimaryBars(ctx) |->
             IsTrue(entry[b]) /\ \A f \in s.filters : IsTrue(FilterMask(f, ctx)[b])]

Entries(s, ctx) == LET raw == RawEntries(s, ctx) IN [b \in DOMAIN raw |-> IsTrue(raw[b])]

\* The exits are combined in the order of the spec, then their NaNs are filled.
Exits(s, ctx) ==
    LET series == [i \in DOMAIN s.exits |-> EvalCondition(s.exits[i], ctx)]
        combined == IF series = <<>> THEN [b \in PrimaryBars(ctx) |-> FALSE]
                    ELSE FoldLeft(OrSeries, Head(series), Tail(series))
    IN [b \in PrimaryBars(ctx) |-> IsTrue(combined[b])]

\* The final latch or extremum of every stateful node below a condition.

NodeValues(c, ctx) ==
    {<<d.id, EvalCondition(d, ctx)[ctx.last]>> :
        d \in {d \in IterConditions(c) : d.type = "regime_state"}}
    \cup {<<e.id, EvalExpression(e, Timeframe(d), ctx)[ctx.last]>> :
        <<d, e>> \in {<<d, e>> \in IterConditions(c) \X IterAllExpressions(c) :
                        /\ e.kind = "ratchet"
                        /\ e \in UNION {IterExpressions(f) : f \in DirectExpressions(d)}}}

NextState(s, ctx) ==
    LET values == UNION {NodeValues(c, ctx) : c \in Roots(s)} IN
    [id \in {v[1] : v \in values} |-> (CHOOSE v \in values : v[1] = id)[2]]

NoSeeds(s) == [id \in StatefulNodes(s) |-> NONE]

Context(first, last, seeds) == [first |-> first, last |-> last, close |-> close, seeds |-> seeds]

-----------------------------------------------------------------------------
(* SpecTemplate and the part of the signal engine around it. *)

\* spec_template_rejection_reason: no filter timeframe.
Runnable(s) == \A c \in UNION {IterConditions(r) : r \in Roots(s)} : Timeframe(c) = "primary"

First(b) == Max({0, b + 1 - Window})

Seeds == IF latest = -1 THEN NoSeeds(spec) ELSE state

TimeExitHit(b) ==
    /\ spec.maxBars # NONE
    /\ Cardinality({t \in First(b)..b : t > position}) >= spec.maxBars

Decide(b, ctx) ==
    IF position = NONE
    THEN IF Entries(spec, ctx)[b] THEN "BUY" ELSE "HOLD"
    ELSE IF Exits(spec, ctx)[b] \/ TimeExitHit(b) THEN "EXIT" ELSE "HOLD"

Init ==
    /\ spec \in Specs
    /\ close \in [0..(N - 1) -> Levels]
    /\ state = NoSeeds(spec)
    /\ latest = -1
    /\ origin = 0
    /\ position = NONE
    /\ kind = "HOLD"

\* _evaluate_pair on the candles up to bar b: decide, persist the state and,
\* with the fill that follows before the next bar closes, move the position.
EvaluatePair(b) ==
    LET ctx == Context(First(b), b, Seeds) IN
    /\ Runnable(spec)
    \* a stateful spec is evaluated once per candle, any spec once if it signals
    /\ b > latest \/ (b = latest /\ StatefulNodes(spec) = {} /\ kind = "HOLD")
    /\ b + 1 - First(b) >= MinBars
    /\ latest # -1 => b - latest <= MaxGap
    /\ origin' = IF latest = -1 THEN First(b) ELSE origin
    /\ state' = NextState(spec, ctx)
    /\ latest' = b
    /\ kind' = Decide(b, ctx)
    /\ position' = CASE kind' = "BUY" -> b + 1 [] kind' = "EXIT" -> NONE [] OTHER -> position
    /\ UNCHANGED <<spec, close>>

\* The executor closes the position at its stop.
StopOut ==
    /\ position # NONE
    /\ position' = NONE
    /\ UNCHANGED <<spec, close, state, latest, origin, kind>>

Next == (\E b \in 0..(N - 1) : EvaluatePair(b)) \/ StopOut

Spec == Init /\ [][Next]_vars

-----------------------------------------------------------------------------
(* Properties. *)

\* What an evaluation of the whole history since the first window says of
\* the latest bar: its entry, its exit and the state it ends in.
FromHistory(b) ==
    LET ctx == Context(origin, b, NoSeeds(spec)) IN
    <<Entries(spec, ctx)[b], Exits(spec, ctx)[b], NextState(spec, ctx)>>

FromWindow(b) ==
    LET ctx == Context(First(b), b, Seeds) IN
    <<Entries(spec, ctx)[b], Exits(spec, ctx)[b], NextState(spec, ctx)>>

\* Stateful nodes on which only the same bar depends, and triggers without
\* a negation, which would be true while its indicators warm up.
Memoryless(c) ==
    /\ \A d \in IterConditions(c) :
          /\ d.type \in {"regime_state", "within_last_n_bars"} =>
                \A x \in SubConditions(d) : StatefulIds(x) = {}
          /\ d.type = "regime_state" =>
                \A x \in SubConditions(d) : \A y \in IterConditions(x) : y.type # "not"
          /\ d.type \in {"crossover", "rising", "falling", "band"} => StatefulIds(d) = {}
    /\ \A e \in IterAllExpressions(c) :
          e.kind \in {"lagged", "percentile", "ratchet"} =>
             \A f \in SubExpression(e) : \A g \in IterExpressions(f) : g.kind # "ratchet"

\* build_signals_stateful: "The seed is what makes a live regime latch
\* full-history-exact rather than window-truncated".  Whatever bars the
\* cycles fell on, the windowed evaluation that the next cycle makes equals
\* that of the history: signals and persisted state, for memoryless specs.
LiveExact ==
    \A b \in (latest + 1)..Min({N - 1, latest + MaxGap}) :
        latest # -1 => FromWindow(b) = FromHistory(b)

SeededMatchesHistory ==
    (\A c \in Roots(spec) : Memoryless(c)) => LiveExact

\* The docstring of _align_to_primary and the schema's no-look-ahead rule: a
\* signal of the backtest is the one that the history up to its bar gives,
\* on either timeframe and through every shift, crossing and latch.
NoSignalLooksAhead ==
    latest = -1 =>
        LET whole == Context(0, N - 1, NoSeeds(spec)) IN
        \A b \in 0..(N - 1) :
            LET past == Context(0, b, NoSeeds(spec)) IN
            /\ RawEntries(spec, whole)[b] = RawEntries(spec, past)[b]
            /\ Exits(spec, whole)[b] = Exits(spec, past)[b]
=============================================================================
