--------------------------- MODULE MCSpecSignals ---------------------------
(* Histories of seven bars with three closes, and specs for every node. *)
EXTENDS SpecSignals

Price == [kind |-> "price"]
Const(v) == [kind |-> "constant", value |-> v]
Sma(n) == [kind |-> "sma", period |-> n]
Lag(e, n) == [kind |-> "lagged", expression |-> e, bars_ago |-> n]
Scaled(e, f) == [kind |-> "scaled", expression |-> e, factor |-> f]
Percentile(e, n) == [kind |-> "percentile", expression |-> e, window |-> n]
Ratchet(id, e, x) == [kind |-> "ratchet", id |-> id, source |-> e, extremum |-> x]

On(tf, left, op, right) == [type |-> "compare", left |-> left, op |-> op, right |-> right, timeframe |-> tf]
Is(left, op, right) == On("primary", left, op, right)
Cross(x, y, d) == [type |-> "crossover", series |-> x, threshold |-> y, direction |-> d, timeframe |-> "primary"]
Moves(type, x, n, strict) ==
    [type |-> type, series |-> x, lookback |-> n, strict |-> strict, timeframe |-> "primary"]
Band(tf, x, form, level) == [type |-> "band", series |-> x, form |-> form, level |-> level, timeframe |-> tf]
Within(c, n) == [type |-> "within_last_n_bars", condition |-> c, n |-> n]
AllOf(cs) == [type |-> "and", conditions |-> cs]
AnyOf(cs) == [type |-> "or", conditions |-> cs]
Not(c) == [type |-> "not", condition |-> c]
Regime(id, enter, exit, initial) ==
    [type |-> "regime_state", id |-> id, enter_when |-> enter, exit_when |-> exit, initial |-> initial]
Hours(start, end, inclusive) ==
    [type |-> "time_of_day", start |-> start, end |-> end, inclusive_end |-> inclusive]
Days(S) == [type |-> "day_of_week", weekdays |-> S]

Session(a, b) == [type |-> "session", start |-> a, end |-> b]
OnDays(S) == [type |-> "weekday", days |-> S]
Filter(c) == [type |-> "condition", condition |-> c]

Rules(entry, exits, filters, maxBars) ==
    [entry |-> entry, exits |-> exits, filters |-> filters, maxBars |-> maxBars]

High == Is(Price, ">=", Const(3))
Low == Is(Price, "<=", Const(1))
Rally == Cross(Price, Lag(Price, 1), "above")

LiveSpecs == {
    Rules(AllOf(<<Regime(1, High, Low, FALSE), Not(High)>>), <<Low>>, {}, NONE),
    Rules(Regime(1, Cross(Price, Sma(2), "above"), Moves("falling", Price, 2, TRUE), TRUE),
          <<Is(Scaled(Price, 2), "<", Ratchet(2, Price, "max"))>>, {}, 2),
    Rules(Band("primary", Sma(2), "crosses_above", 4), <<Band("primary", Price, "toward", 2)>>,
          {Filter(Regime(1, Within(High, 2), Rally, FALSE)), Session(0, 1), OnDays({1, 2})}, NONE),
    Rules(AnyOf(<<Hours(2, 1, FALSE), Days({1})>>),
          <<Is(Lag(Price, 1), "==", Percentile(Price, 2)), Is(Price, "<", Ratchet(1, Sma(2), "min"))>>, {}, 3),
    Rules(Rally, <<Low>>, {}, 1)}

BacktestSpecs == {
    Rules(AnyOf(<<On("filter", Sma(2), ">", Const(3)), Rally>>), <<Low>>,
          {Filter(Not(Band("filter", Price, "below", 2)))}, NONE),
    Rules(On("filter", Ratchet(1, Price, "max"), ">", Price),
          <<Band("filter", Price, "crosses_below", 2), Hours(0, 1, TRUE)>>, {}, NONE)}

MCSpecs == LiveSpecs \cup BacktestSpecs
=============================================================================
